---- MODULE Spec2Model ----
(***************************************************************************)
(* A model of the gobs/cmd command interpreter: the scope stack            *)
(* (internal/internal.go), the dispatch loop and RunBlock (cmd.go), the    *)
(* control-flow plugin (plugins/controlflow/controlflow.go) and the        *)
(* asynchronous dispatch command `go` (cmd.go).                            *)
(*                                                                         *)
(* Representation.  A script line is a sequence of words (the line split   *)
(* at blanks); a variable's value is a string.  A scope frame is a         *)
(* function from variable names to values; the frame with no binding is    *)
(* the function with the empty domain, written << >>.                      *)
(***************************************************************************)
EXTENDS Integers, Sequences, FiniteSets, TLC

VARIABLES
    scopes,       \* ctx.scopes: the stack of frames, scopes[1] is the global one
    proc,         \* the process: "running", "exited", "killed" or "panic"
    got,          \* the last call made through the scope API and its result (history)
    scanner,      \* ctx.scanner: the current Line Source
    pending,      \* lines typed at the interactive prompt and not yet read
    typed,        \* number of snippets typed so far
    functions,    \* cf.functions: function name -> body lines
    interrupted,  \* cmd.interrupted
    inLoop,       \* cf.inLoop
    cstack,       \* the activations of runLoop / command_repeat / command_foreach
    signals,      \* the signal task: signals received, and the one being handled
    lastRet,      \* what the last RunBlock returned (history)
    reported,     \* the error the command dispatched last has printed (history)
    waitGroup,    \* cmd.waitGroup: 0 is nil, otherwise the identity of a WaitGroup
    counters,     \* the counter of each WaitGroup created so far
    waitCount,    \* cmd.waitCount
    waitMax,      \* cmd.waitMax
    tasks,        \* the goroutines started by `go`
    gopc,         \* where the main loop stands in command_go
    goret,        \* what the last call of command_go printed and returned
    issued,       \* number of lines the main loop has dispatched in the go model
    xpc,          \* where a call followed on its own stands: "idle", "scan" or
                  \* "done" for expandVariables, or the name of the function called
    xin,          \* the input handed to that call
    xline         \* the line as the passes of expandVariables have left it, or
                  \* what the function called has returned

scopeVars == <<scopes, proc, got>>

interpVars ==
    <<scanner, pending, typed, functions, interrupted, inLoop, cstack, signals, lastRet,
      reported>>

goVars == <<waitGroup, counters, waitCount, waitMax, tasks, gopc, goret, issued>>

expVars == <<xpc, xin, xline>>

vars == <<scopeVars, interpVars, goVars, expVars>>

-----------------------------------------------------------------------------
(* Bounds of the model.                                                    *)

MaxDepth == 2

-----------------------------------------------------------------------------
(* Strings.                                                                *)

\* strconv.Itoa
Itoa(n) == ToString(n)

\* strings.Join(ws, sep)
RECURSIVE Join(_, _)
Join(ws, sep) ==
    IF Len(ws) = 0 THEN ""
    ELSE IF Len(ws) = 1 THEN ws[1]
    ELSE ws[1] \o sep \o Join(Tail(ws), sep)

\* s[from:] of a slice
SliceFrom(s, from) == SubSeq(s, from, Len(s))

-----------------------------------------------------------------------------
(* The scope stack (internal.Context).                                     *)

NoFrame == << >>

\* A []string argument: Go tells a nil slice from an empty one.
NilArgs == [nil |-> TRUE, v |-> << >>]

Args(ws) == [nil |-> FALSE, v |-> ws]

\* m[k] = v on a frame
Bind(frame, k, v) == (k :> v) @@ frame

\* PushScope: the vars (initial), scope[strconv.Itoa(i)] = args[i] (Go slices
\* are indexed from 0, sequences from 1) and, for args that are not nil, `*`
\* and `#`.
PushScope(s, initial, args) ==
    LET withArgs == [k \in {Itoa(i - 1) : i \in 1..Len(args.v)} |->
                        args.v[CHOOSE i \in 1..Len(args.v) : Itoa(i - 1) = k]] @@ initial
    IN  Append(s, IF args.nil THEN withArgs
                  ELSE Bind(Bind(withArgs, "*", Join(SliceFrom(args.v, 2), " ")),
                            "#", Itoa(Len(SliceFrom(args.v, 2)))))

\* PopScope panics ("no scopes") only when the stack is already empty.
PopScopePanics(s) == Len(s) = 0

PopScope(s) == SubSeq(s, 1, Len(s) - 1)

\* The index SetVar, UnsetVar and GetScope address; they panic on an empty stack.
NoScopes(s) == Len(s) - 1 < 0

\* An addressing that takes every target for the local one.
ScopeIndexLocal(s, scope) == Len(s)

ScopeIndex(s, scope) ==
    CASE scope = "global" -> 1
      [] scope = "parent" -> IF Len(s) - 1 > 0 THEN Len(s) - 1 ELSE Len(s)
      [] OTHER -> Len(s)

SetVar(s, k, v, scope) ==
    [s EXCEPT ![ScopeIndex(s, scope)] = Bind(@, k, v)]

\* An UnsetVar that removes the name from every frame.
UnsetVarEverywhere(s, k, scope) ==
    [i \in 1..Len(s) |-> [n \in DOMAIN s[i] \ {k} |-> s[i][n]]]

UnsetVar(s, k, scope) ==
    [s EXCEPT ![ScopeIndex(s, scope)] = IF k \in DOMAIN @ THEN [n \in DOMAIN @ \ {k} |-> @[n]] ELSE @]

\* A lookup that reads the global frame only.
GetVarGlobal(s, k) ==
    IF Len(s) >= 1 /\ k \in DOMAIN s[1] THEN [v |-> s[1][k], ok |-> TRUE]
    ELSE [v |-> "", ok |-> FALSE]

\* GetVar: the closest frame that binds k, searched from the top.
RECURSIVE GetVarFrom(_, _, _)
GetVarFrom(s, k, i) ==
    IF i < 1 THEN [v |-> "", ok |-> FALSE]
    ELSE IF k \in DOMAIN s[i] THEN [v |-> s[i][k], ok |-> TRUE]
    ELSE GetVarFrom(s, k, i - 1)

GetVar(s, k) == GetVarFrom(s, k, Len(s))

\* fmt.Sprintf("%v", b) of a bool
BoolString(b) == IF b THEN "true" ELSE "false"

\* Cmd.Init: the global frame is pushed, then echo, print and timing are set
\* from the zero values of cmd.Echo, cmd.Silent and cmd.Timing.
InitScopes ==
    LET s0 == PushScope(<< >>, NoFrame, NilArgs)
        s1 == SetVar(s0, "echo", BoolString(FALSE), "local")
        s2 == SetVar(s1, "print", BoolString(~FALSE), "local")
    IN  SetVar(s2, "timing", BoolString(FALSE), "local")

-----------------------------------------------------------------------------
(* Idle values of the parts a specification does not exercise.             *)

\* What the last RunBlock returned: the block's name, the construct that ran
\* it, what its last command returned, what its runLoop returned, what
\* RunBlock returned, the stack before and after its PopScope, and for a
\* function the stack at the call, and the writes made while the block ran.
NoRet ==
    [name |-> "", caller |-> "none", byStop |-> FALSE, shouldStop |-> FALSE,
     stop |-> FALSE, before |-> << >>, after |-> << >>, entry |-> << >>, log |-> << >>,
     cmd |-> << >>, b1 |-> << >>, b2 |-> << >>, ran |-> << >>]

\* What a command that printed an error was dispatched as, the error, what
\* the command returned, and the frames and functions it left.
NoReport ==
    [cmd |-> << >>, kind |-> "none", err |-> "", stop |-> FALSE, scopes |-> << >>,
     functions |-> << >>]

\* The signal task: signals received so far, the one being handled, and
\* whether one was received since the main loop last dispatched a line.
NoSignal == [count |-> 0, handling |-> "none", recent |-> FALSE]

InterpIdle ==
    /\ scanner = [kind |-> "liner", lines |-> << >>]
    /\ pending = << >>
    /\ typed = 0
    /\ functions = << >>
    /\ interrupted = FALSE
    /\ inLoop = FALSE
    /\ cstack = << >>
    /\ signals = NoSignal
    /\ lastRet = NoRet
    /\ reported = NoReport

\* What a call of command_go did: the form of the line, what it printed, the
\* stop it returned, whether it went through Wait(), the barrier it used and
\* how many tasks admitted through that barrier were unfinished when it went on.
GoRet(line, printed, stop, blocked, barrier, left) ==
    [line |-> line, printed |-> printed, stop |-> stop, blocked |-> blocked,
     barrier |-> barrier, left |-> left]

\* No call is followed on its own.
ExpIdle ==
    /\ xpc = "idle"
    /\ xin = << >>
    /\ xline = << >>

GoIdle ==
    /\ waitGroup = 0
    /\ counters = << >>
    /\ waitCount = 0
    /\ waitMax = 0
    /\ tasks = << >>
    /\ gopc = "read"
    /\ goret = GoRet("none", "", FALSE, FALSE, 0, 0)
    /\ issued = 0

-----------------------------------------------------------------------------
(* SpecScope: the scope stack used through its API, as a plugin that holds *)
(* the *internal.Context may use it.                                       *)

\* A call of the scope API: PushScope, PopScope, SetVar(k, val, scope),
\* UnsetVar(k, scope) or v, ok := GetVar(k).
NoCall == [op |-> "none", k |-> "", val |-> "", scope |-> "", v |-> "", ok |-> FALSE]

ScopeNames == {"x", "y"}

ScopeValues == {"1", "2"}

ScopeTargets == {"local", "parent", "global"}

ScopeArgs == {NilArgs, Args(<<"f">>), Args(<<"f", "a", "b">>)}

ScopeInitVars == {NoFrame, Bind(NoFrame, "x", "1")}

InitScope ==
    /\ scopes = InitScopes
    /\ proc = "running"
    /\ got = NoCall
    /\ InterpIdle
    /\ GoIdle
    /\ ExpIdle

ApiPushScope ==
    /\ proc = "running"
    /\ Len(scopes) < MaxDepth
    /\ \E vs \in ScopeInitVars, args \in ScopeArgs :
           scopes' = PushScope(scopes, vs, args)
    /\ got' = [NoCall EXCEPT !.op = "PushScope"]
    /\ UNCHANGED <<proc, interpVars, goVars, expVars>>

ApiPopScope ==
    /\ proc = "running"
    /\ IF PopScopePanics(scopes)
       THEN proc' = "panic" /\ UNCHANGED scopes
       ELSE scopes' = PopScope(scopes) /\ UNCHANGED proc
    /\ got' = [NoCall EXCEPT !.op = "PopScope"]
    /\ UNCHANGED <<interpVars, goVars, expVars>>

ApiSetVar ==
    /\ proc = "running"
    /\ \E k \in ScopeNames, v \in ScopeValues, t \in ScopeTargets :
           /\ got' = [NoCall EXCEPT !.op = "SetVar", !.k = k, !.val = v, !.scope = t]
           /\ IF NoScopes(scopes)
              THEN proc' = "panic" /\ UNCHANGED scopes
              ELSE scopes' = SetVar(scopes, k, v, t) /\ UNCHANGED proc
    /\ UNCHANGED <<interpVars, goVars, expVars>>

ApiUnsetVar ==
    /\ proc = "running"
    /\ \E k \in ScopeNames, t \in ScopeTargets :
           /\ got' = [NoCall EXCEPT !.op = "UnsetVar", !.k = k, !.scope = t]
           /\ IF NoScopes(scopes)
              THEN proc' = "panic" /\ UNCHANGED scopes
              ELSE scopes' = UnsetVar(scopes, k, t) /\ UNCHANGED proc
    /\ UNCHANGED <<interpVars, goVars, expVars>>

ApiGetVar ==
    /\ proc = "running"
    /\ \E k \in ScopeNames \cup {"0", "1", "*", "#"} :
           got' = [NoCall EXCEPT !.op = "GetVar", !.k = k, !.v = GetVar(scopes, k).v,
                                 !.ok = GetVar(scopes, k).ok]
    /\ UNCHANGED <<scopes, proc, interpVars, goVars, expVars>>

NextScope ==
    \/ ApiPushScope
    \/ ApiPopScope
    \/ ApiSetVar
    \/ ApiUnsetVar
    \/ ApiGetVar

SpecScope == InitScope /\ [][NextScope]_vars

-----------------------------------------------------------------------------
(* SpecGo: the command `go` dispatched by the main loop, and the           *)
(* goroutines it starts.  A WaitGroup is known by its identity, an index   *)
(* into counters; identity 0 is the nil pointer.  The command a task runs  *)
(* is a blocking one that touches nothing of the interpreter.              *)

MaxIssued == 5

MaxCap == 2

\* new(sync.WaitGroup)
NewWaitGroup(cs) == Append(cs, 0)

\* WaitGroup.Add(1)
WgAdd(cs, g) == [cs EXCEPT ![g] = @ + 1]

\* WaitGroup.Done(): a nil receiver and a counter that would go negative panic.
WgDonePanics(cs, g) == g = 0 \/ cs[g] = 0

WgDone(cs, g) == [cs EXCEPT ![g] = @ - 1]

\* A Wait() that already returns when fewer than waitMax tasks are outstanding.
WgWaitReturnsBelowCap(cs, g) == cs[g] = 0 \/ cs[g] < waitMax

\* WaitGroup.Wait() returns once the counter is zero.
WgWaitReturns(cs, g) == cs[g] = 0

\* command_go: `if cmd.waitMax > 0 { if cmd.waitCount >= cmd.waitMax {` Wait
MustDrain(max, count) == max > 0 /\ count >= max

\* A goroutine started by `go`.  via and cap record the barrier it was admitted
\* through (0: none); grp is the WaitGroup its `defer cmd.waitGroup.Done()`
\* took from cmd.waitGroup when the goroutine began to run (-1: not yet).
Task(via, cap) == [via |-> via, cap |-> cap, grp |-> -1, st |-> "spawned"]

\* Tasks admitted through barrier b that have not finished.
Unfinished(b) == {i \in 1..Len(tasks) : tasks[i].via = b /\ tasks[i].st /= "done"}

InitGo ==
    /\ scopes = InitScopes
    /\ proc = "running"
    /\ got = NoCall
    /\ InterpIdle
    /\ GoIdle
    /\ ExpIdle

GoRunning == proc = "running" /\ gopc = "read" /\ issued < MaxIssued

\* `go --start [N]`
GoStart ==
    /\ GoRunning
    /\ \E n \in 0..MaxCap :
           /\ counters' = NewWaitGroup(counters)
           /\ waitGroup' = Len(counters) + 1
           /\ waitCount' = 0
           /\ waitMax' = n
    /\ goret' = GoRet("start", "", FALSE, FALSE, Len(counters) + 1, 0)
    /\ issued' = issued + 1
    /\ UNCHANGED <<tasks, gopc, scopeVars, interpVars, expVars>>

\* `go --wait`: without a barrier it prints and returns, with one it calls Wait.
GoWait ==
    /\ GoRunning
    /\ issued' = issued + 1
    /\ IF waitGroup = 0
       THEN /\ goret' = GoRet("wait", "nothing to wait on", FALSE, FALSE, 0, 0)
            /\ UNCHANGED gopc
       ELSE /\ gopc' = "wait"
            /\ UNCHANGED goret
    /\ UNCHANGED <<waitGroup, counters, waitCount, waitMax, tasks, scopeVars, interpVars, expVars>>

\* cmd.waitGroup.Wait() of `go --wait` returns; cmd.waitGroup = nil.
GoWaitDone ==
    /\ proc = "running"
    /\ gopc = "wait"
    /\ WgWaitReturns(counters, waitGroup)
    /\ waitGroup' = 0
    /\ gopc' = "read"
    /\ goret' = GoRet("wait", "", FALSE, TRUE, waitGroup,
                    Cardinality(Unfinished(waitGroup)))
    /\ UNCHANGED <<counters, waitCount, waitMax, tasks, issued, scopeVars, interpVars, expVars>>

\* An option that is neither --start nor --wait.
GoInvalidOption ==
    /\ GoRunning
    /\ issued' = issued + 1
    /\ goret' = GoRet("option", "invalid option", FALSE, FALSE, 0, 0)
    /\ UNCHANGED <<waitGroup, counters, waitCount, waitMax, tasks, gopc,
                   scopeVars, interpVars, expVars>>

\* `go go ...`
GoGo ==
    /\ GoRunning
    /\ issued' = issued + 1
    /\ goret' = GoRet("gogo", "Don't go go me!", FALSE, FALSE, 0, 0)
    /\ UNCHANGED <<waitGroup, counters, waitCount, waitMax, tasks, gopc,
                   scopeVars, interpVars, expVars>>

\* `go cmd` without a barrier: go cmd.OneCmd(line)
GoFireAndForget ==
    /\ GoRunning
    /\ waitGroup = 0
    /\ issued' = issued + 1
    /\ tasks' = Append(tasks, Task(0, 0))
    /\ goret' = GoRet("cmd", "", FALSE, FALSE, 0, 0)
    /\ UNCHANGED <<waitGroup, counters, waitCount, waitMax, gopc, scopeVars, interpVars, expVars>>

\* The admission of a task through the barrier: waitCount++, Add(1), go func.
Admit(count, blocked) ==
    /\ waitCount' = count + 1
    /\ counters' = WgAdd(counters, waitGroup)
    /\ tasks' = Append(tasks, Task(waitGroup, waitMax))
    /\ goret' = GoRet("cmd", "", FALSE, blocked, waitGroup,
                    Cardinality(Unfinished(waitGroup)))

\* `go cmd` with a barrier that has room (or no capacity limit).
GoAdmitNow ==
    /\ GoRunning
    /\ waitGroup /= 0
    /\ ~MustDrain(waitMax, waitCount)
    /\ issued' = issued + 1
    /\ Admit(waitCount, FALSE)
    /\ UNCHANGED <<waitGroup, waitMax, gopc, scopeVars, interpVars, expVars>>

\* `go cmd` with a full barrier: the caller enters cmd.waitGroup.Wait().
GoHold ==
    /\ GoRunning
    /\ waitGroup /= 0
    /\ MustDrain(waitMax, waitCount)
    /\ issued' = issued + 1
    /\ gopc' = "admit"
    /\ UNCHANGED <<waitGroup, counters, waitCount, waitMax, tasks, goret,
                   scopeVars, interpVars, expVars>>

\* Wait() of a held `go cmd` returns: waitCount = 0, then the admission.
GoAdmitHeld ==
    /\ proc = "running"
    /\ gopc = "admit"
    /\ WgWaitReturns(counters, waitGroup)
    /\ Admit(0, TRUE)
    /\ gopc' = "read"
    /\ UNCHANGED <<waitGroup, waitMax, issued, scopeVars, interpVars, expVars>>

\* A goroutine begins to run.  One started through a barrier executes
\* `defer cmd.waitGroup.Done()`, which reads cmd.waitGroup at that moment.
TaskStart(i) ==
    /\ proc = "running"
    /\ tasks[i].st = "spawned"
    /\ tasks' = [tasks EXCEPT ![i].st = "running",
                              ![i].grp = IF tasks[i].via = 0 THEN -1 ELSE waitGroup]
    /\ UNCHANGED <<waitGroup, counters, waitCount, waitMax, gopc, goret, issued,
                   scopeVars, interpVars, expVars>>

\* cmd.OneCmd(line) returns in a goroutine; the deferred Done() runs.
TaskFinish(i) ==
    /\ proc = "running"
    /\ tasks[i].st = "running"
    /\ IF tasks[i].via = 0
       THEN /\ tasks' = [tasks EXCEPT ![i].st = "done"]
            /\ UNCHANGED <<counters, proc>>
       ELSE IF WgDonePanics(counters, tasks[i].grp)
       THEN /\ proc' = "panic"
            /\ UNCHANGED <<counters, tasks>>
       ELSE /\ counters' = WgDone(counters, tasks[i].grp)
            /\ tasks' = [tasks EXCEPT ![i].st = "done"]
            /\ UNCHANGED proc
    /\ UNCHANGED <<scopes, got, waitGroup, waitCount, waitMax, gopc, goret, issued,
                   interpVars, expVars>>

NextGo ==
    \/ GoStart
    \/ GoWait
    \/ GoWaitDone
    \/ GoInvalidOption
    \/ GoGo
    \/ GoFireAndForget
    \/ GoAdmitNow
    \/ GoHold
    \/ GoAdmitHeld
    \/ \E i \in 1..Len(tasks) : TaskStart(i)
    \/ \E i \in 1..Len(tasks) : TaskFinish(i)

SpecGo == InitGo /\ [][NextGo]_vars

\* C7: after `go --start N` with N >= 1, the tasks admitted through that
\* barrier and not yet finished never number more than N.
C7_AtMostNInFlight ==
    \A i \in 1..Len(tasks) :
        (tasks[i].via /= 0 /\ tasks[i].cap >= 1)
            => Cardinality(Unfinished(tasks[i].via)) <= tasks[i].cap

\* C8: with an open barrier of capacity N >= 1, a bare `go cmd` issued when N
\* tasks have been admitted since the barrier was opened or last drained holds
\* its caller until every one of those tasks has finished, and only then
\* admits the new task.
C8_HeldUntilAllFinished ==
    /\ (gopc = "admit" /\ Unfinished(waitGroup) /= {}) => ~ENABLED GoAdmitHeld
    /\ (goret.line = "cmd" /\ goret.blocked) => goret.left = 0

C10_WaitDrainsAndCloses ==
    /\ (gopc = "wait" /\ Unfinished(waitGroup) /= {}) => ~ENABLED GoWaitDone
    /\ (goret.line = "wait" /\ goret.blocked) => goret.left = 0
    /\ (goret.line = "wait" /\ gopc = "read") => waitGroup = 0
    /\ (goret.line = "wait" /\ gopc = "read" /\ issued < MaxIssued /\ proc = "running")
           => ENABLED GoFireAndForget
    /\ (goret.line = "wait" /\ ~goret.blocked)
           => (goret.printed = "nothing to wait on" /\ ~goret.stop)

\* C2: popping when only the permanent global frame is left aborts and does
\* not remove the frame, so the scope stack is never left empty.
C2_StackNeverEmpty == Len(scopes) >= 1

-----------------------------------------------------------------------------
(* Lines.  A line is the sequence of its blank-separated words; `{`, `}`,   *)
(* `(`, `)`, `#` and a trailing `\` stand as words of their own.  The       *)
(* string tests of the code (HasPrefix, HasSuffix, TrimPrefix, TrimRight)   *)
(* are made on the first and last word.                                     *)

HasPrefix(line, w) == Len(line) > 0 /\ line[1] = w

HasSuffix(line, w) == Len(line) > 0 /\ line[Len(line)] = w

\* strings.TrimRight(line, w) followed by strings.TrimSpace
RECURSIVE TrimRight(_, _)
TrimRight(line, w) ==
    IF HasSuffix(line, w) THEN TrimRight(SubSeq(line, 1, Len(line) - 1), w) ELSE line

\* runLoop and ReadBlock: strings.HasPrefix(line, "#") || line == ""
IsBlankOrComment(line) == Len(line) = 0 \/ HasPrefix(line, "#")

-----------------------------------------------------------------------------
(* Line Sources (internal.Context scanner, ReadLine, ReadBlock).  An input  *)
(* is the current scanner with the lines waiting at the terminal; reading   *)
(* the terminal when nothing waits is the user's end of input (io.EOF).     *)

\* &ScanLiner{line: ctx.line}
LinerScanner == [kind |-> "liner", lines |-> << >>]

\* The scanner field of a Context that NewContext has just made: a nil
\* interface, on which a call of Scan is a nil dereference.
NilScanner == [kind |-> "nil", lines |-> << >>]

Available(in) == IF in.sc.kind = "liner" THEN in.pend ELSE in.sc.lines

\* ScanLines.Text: text, s.lines = s.lines[0], s.lines[1:]
readOneLine(in) ==
    IF in.sc.kind = "nil" THEN [line |-> << >>, err |-> "panic", in |-> in]
    ELSE IF Len(Available(in)) > 0
    THEN [line |-> Head(Available(in)), err |-> "",
          in |-> IF in.sc.kind = "liner" THEN [in EXCEPT !.pend = Tail(@)]
                 ELSE [in EXCEPT !.sc.lines = Tail(@)]]
    ELSE [line |-> << >>, err |-> "EOF", in |-> in]

\* The continuation loop of ReadLine: a line ending in `\` is merged with the
\* next one; a failed read of the next one is printed and ends the merge.
RECURSIVE MergeContinuation(_, _)
MergeContinuation(line, in) ==
    IF ~HasSuffix(line, "\\") THEN [line |-> line, err |-> "", in |-> in]
    ELSE IF readOneLine(in).err /= ""
    THEN [line |-> TrimRight(line, "\\"), err |-> "", in |-> readOneLine(in).in]
    ELSE MergeContinuation(TrimRight(line, "\\") \o readOneLine(in).line,
                           readOneLine(in).in)

ReadLine(in) ==
    IF readOneLine(in).err /= "" THEN readOneLine(in)
    ELSE MergeContinuation(readOneLine(in).line, readOneLine(in).in)

\* The names a `$name` reference can carry in this model.
RefNames == {"x", "y", "0", "1", "2", "#", "*", "index", "count", "item"}

\* strings.Replace(body, "\\$", "$", -1), word by word
UnescapeDollar(line) ==
    [i \in 1..Len(line) |->
        IF \E n \in RefNames : line[i] = "\\$" \o n
        THEN "$" \o (CHOOSE n \in RefNames : line[i] = "\\$" \o n)
        ELSE line[i]]

\* One `for` loop of ReadBlock: lines are collected until the `}` that brings
\* opened back to 0; blank and comment lines are collected as they are.
RECURSIVE CollectBlock(_, _, _)
\* A block reader that leaves blank and comment lines out of the block.
CollectLineSkips(r, opened, closed, block) ==
    IF r.err /= ""
    THEN [err |-> r.err, block |-> << >>, last |-> << >>, in |-> r.in]
    ELSE IF IsBlankOrComment(r.line)
    THEN CollectBlock(r.in, opened, block)
    ELSE IF HasPrefix(r.line, "}") /\ closed <= 0
    THEN [err |-> "", block |-> block, last |-> r.line, in |-> r.in]
    ELSE CollectBlock(r.in,
                      IF HasSuffix(r.line, "{") THEN closed + 1 ELSE closed,
                      Append(block, r.line))

CollectLine(r, opened, closed, block) ==
    IF r.err /= ""
    THEN [err |-> r.err, block |-> << >>, last |-> << >>, in |-> r.in]
    ELSE IF IsBlankOrComment(r.line)
    THEN CollectBlock(r.in, opened, Append(block, r.line))
    ELSE IF HasPrefix(r.line, "}") /\ closed <= 0
    THEN [err |-> "", block |-> block, last |-> r.line, in |-> r.in]
    ELSE CollectBlock(r.in,
                      IF HasSuffix(r.line, "{") THEN closed + 1 ELSE closed,
                      Append(block, r.line))

\* A block reader that takes the first line starting with `}` as the end of
\* the block, whatever was opened since.
CollectNextFlat(r, opened, block) ==
    CollectLine(r, opened, IF r.err = "" /\ HasPrefix(r.line, "}") THEN 0 ELSE opened, block)

\* closed is opened after the `opened -= 1` of a line that starts with `}`.
CollectNext(r, opened, block) ==
    CollectLine(r, opened,
                IF r.err = "" /\ HasPrefix(r.line, "}") THEN opened - 1 ELSE opened,
                block)

CollectBlock(in, opened, block) == CollectNext(ReadLine(in), opened, block)

BlockResult(b1, b2, err, in) == [block1 |-> b1, block2 |-> b2, err |-> err, in |-> in]

\* ReadBlock once the second block has been collected.
SecondBlock(first, second) ==
    IF second.err /= "" THEN BlockResult(<< >>, << >>, second.err, second.in)
    ELSE BlockResult(first.block, second.block, "", second.in)

\* ReadBlock once the first block has been collected: after is the closing
\* line without its `}`, rest is after without the next keyword.
AfterFirstBlock(first, next, after, rest) ==
    IF first.err /= "" THEN BlockResult(<< >>, << >>, first.err, first.in)
    ELSE IF IsBlankOrComment(after) THEN BlockResult(first.block, << >>, "", first.in)
    ELSE IF next /= "" /\ ~HasPrefix(after, next)
    THEN BlockResult(<< >>, << >>, "expected next", first.in)
    ELSE IF rest /= <<"{">> THEN BlockResult(<< >>, << >>, "expected }", first.in)
    ELSE SecondBlock(first, CollectBlock(first.in, 1, << >>))

TrimPrefix(line, w) == IF HasPrefix(line, w) THEN Tail(line) ELSE line

FirstBlock(first, next) ==
    AfterFirstBlock(first, next, TrimPrefix(first.last, "}"),
                    IF next = "" THEN TrimPrefix(first.last, "}")
                    ELSE TrimPrefix(TrimPrefix(first.last, "}"), next))

ReadBlock(body, next, in) ==
    IF ~HasSuffix(body, "{") THEN BlockResult(<<UnescapeDollar(body)>>, << >>, "", in)
    ELSE IF body /= <<"{">> THEN BlockResult(<< >>, << >>, "unexpected body and block", in)
    ELSE FirstBlock(CollectBlock(in, 1, << >>), next)

-----------------------------------------------------------------------------
(* The control-flow plugin's pure parts.                                   *)

\* canExpand: the one-line bodies of function, repeat and foreach are kept.
canExpand(line) ==
    ~(HasPrefix(line, "function") \/ HasPrefix(line, "repeat") \/ HasPrefix(line, "foreach"))

IsRef(w) == \E n \in RefNames : w = "$" \o n \/ w = "$(" \o n \o ")"

\* The fat dollar sign (U+1F4B2) that stands for `$$` while the line is scanned.
FatDollar == "<$>"

\* strings.Replace(line, "$$", fat, -1), word by word
Protect(line) ==
    [i \in 1..Len(line) |->
        IF \E n \in RefNames : line[i] = "$$" \o n
        THEN FatDollar \o (CHOOSE n \in RefNames : line[i] = "$$" \o n)
        ELSE line[i]]

\* strings.Replace(line, fat, "$", -1), word by word.  The restored line is
\* split again at blanks: a reference replaced by the empty string leaves no
\* word.
Restore(line) ==
    SelectSeq([i \in 1..Len(line) |->
                  IF \E n \in RefNames : line[i] = FatDollar \o n
                  THEN "$" \o (CHOOSE n \in RefNames : line[i] = FatDollar \o n)
                  ELSE line[i]],
              LAMBDA w : w /= "")

\* A callback that does not leave a value's own reference to the next pass.
PassWordDropsNested(s, w) ==
    IF \E n \in RefNames : w = "$" \o n \/ w = "$(" \o n \o ")"
    THEN LET v == GetVar(s, CHOOSE n \in RefNames : w = "$" \o n \/ w = "$(" \o n \o ")").v
         IN  IF \E n \in RefNames : v = "$" \o n THEN "" ELSE v
    ELSE w

\* The callback of reArg.ReplaceAllStringFunc: v, _ := cf.ctx.GetVar(arg)
PassWord(s, w) ==
    IF IsRef(w)
    THEN GetVar(s, CHOOSE n \in RefNames : w = "$" \o n \/ w = "$(" \o n \o ")").v
    ELSE w

\* One pass of the for loop of expandVariables over the line ...
ExpandPassOver(s, line) == [i \in 1..Len(line) |-> PassWord(s, line[i])]

\* ... and its `found`: the pass met a reference.
Found(line) == \E i \in 1..Len(line) : IsRef(line[i])

\* The for loop of expandVariables: passes until one finds no reference.  The
\* loop has no other exit: when a pass gives a line it has given before, the
\* passes go on for ever (ok is FALSE).
RECURSIVE ExpandLoop(_, _, _)
ExpandLoop(s, line, seen) ==
    IF ~Found(line) THEN [ok |-> TRUE, line |-> line]
    ELSE IF line \in seen THEN [ok |-> FALSE, line |-> line]
    ELSE ExpandLoop(s, ExpandPassOver(s, line), seen \cup {line})

expandVariables(s, line) == Restore(ExpandLoop(s, Protect(line), {}).line)

\* runFunction: if canExpand(line) { line = cf.expandVariables(line) }; a call
\* of expandVariables that does not return leaves the interpreter in it.
Expands(s, line) == canExpand(line) => ExpandLoop(s, Protect(line), {}).ok

Expanded(s, line) == IF canExpand(line) THEN expandVariables(s, line) ELSE line

MaxNum == 10

\* parseInt: the number a word spells, 0 when it spells none.
NumOf(w) ==
    IF \E n \in (0 - MaxNum)..MaxNum : w = Itoa(n)
    THEN CHOOSE n \in (0 - MaxNum)..MaxNum : w = Itoa(n)
    ELSE 0

Word(args, i) == IF Len(args) >= i THEN args[i] ELSE ""

\* The strings whose order and parts the model knows, in the byte order of
\* strings.Compare.
Strings == <<"", "0", "1", "a", "ab", "b">>

\* strings.Compare on Strings; any other string comes after them.
Compare(a, b) ==
    LET rank(w) == IF \E i \in 1..Len(Strings) : Strings[i] = w
                   THEN CHOOSE i \in 1..Len(Strings) : Strings[i] = w
                   ELSE Len(Strings) + 1
    IN  IF a = b THEN 0 ELSE IF rank(a) < rank(b) THEN 0 - 1 ELSE 1

\* strings.HasPrefix(s, p), strings.HasSuffix(s, p) and strings.Contains(s, p)
\* on Strings.
Has(part, s, p) ==
    \/ p = ""
    \/ p = s
    \/ s = "ab" /\ p = "a" /\ part \in {"startswith", "contains"}
    \/ s = "ab" /\ p = "b" /\ part \in {"endswith", "contains"}

\* compare(args, num): cres is the sign of the comparison.
compare(args, num) ==
    IF Len(args) > 2 \/ (num /\ Len(args) /= 2) THEN [cres |-> 0, err |-> "expected 2 arguments"]
    ELSE IF num THEN [cres |-> NumOf(Word(args, 1)) - NumOf(Word(args, 2)), err |-> ""]
    ELSE [cres |-> Compare(Word(args, 1), Word(args, 2)), err |-> ""]

\* strconv.ParseBool, and v != "" when it fails
boolValue(v) ==
    IF v \in {"1", "t", "T", "TRUE", "true", "True"} THEN TRUE
    ELSE IF v \in {"0", "f", "F", "FALSE", "false", "False"} THEN FALSE
    ELSE v /= ""

CondResult(res, err) == [res |-> res, err |-> err]

Compared(c, res) == CondResult(IF c.err = "" THEN res ELSE FALSE, c.err)

\* The switch of evalConditional over the operator of `( cond args... )`.
evalOperator(cond, args) ==
    IF cond = "z"
    THEN IF Len(args) = 0 THEN CondResult(TRUE, "")
         ELSE IF Len(args) = 1 THEN CondResult(args[1] = "", "")
         ELSE CondResult(FALSE, "expected 1 argument")
    ELSE IF cond = "n"
    THEN IF Len(args) = 0 THEN CondResult(FALSE, "")
         ELSE IF Len(args) = 1 THEN CondResult(args[1] /= "", "")
         ELSE CondResult(TRUE, "")
    ELSE IF cond = "t"
    THEN IF Len(args) = 0 THEN CondResult(FALSE, "")
         ELSE IF Len(args) = 1 THEN CondResult(boolValue(args[1]), "")
         ELSE CondResult(TRUE, "")
    ELSE IF cond = "f"
    THEN IF Len(args) = 0 THEN CondResult(TRUE, "")
         ELSE IF Len(args) = 1 THEN CondResult(~boolValue(args[1]), "")
         ELSE CondResult(FALSE, "")
    ELSE IF cond = "eq" THEN Compared(compare(args, FALSE), compare(args, FALSE).cres = 0)
    ELSE IF cond = "ne" THEN Compared(compare(args, FALSE), compare(args, FALSE).cres /= 0)
    ELSE IF cond = "gt" THEN Compared(compare(args, FALSE), compare(args, FALSE).cres > 0)
    ELSE IF cond = "gte" THEN Compared(compare(args, FALSE), compare(args, FALSE).cres >= 0)
    ELSE IF cond = "lt" THEN Compared(compare(args, FALSE), compare(args, FALSE).cres < 0)
    ELSE IF cond = "lte" THEN Compared(compare(args, FALSE), compare(args, FALSE).cres <= 0)
    ELSE IF cond = "eq#" THEN Compared(compare(args, TRUE), compare(args, TRUE).cres = 0)
    ELSE IF cond = "ne#" THEN Compared(compare(args, TRUE), compare(args, TRUE).cres /= 0)
    ELSE IF cond = "gt#" THEN Compared(compare(args, TRUE), compare(args, TRUE).cres > 0)
    ELSE IF cond = "gte#" THEN Compared(compare(args, TRUE), compare(args, TRUE).cres >= 0)
    ELSE IF cond = "lt#" THEN Compared(compare(args, TRUE), compare(args, TRUE).cres < 0)
    ELSE IF cond = "lte#" THEN Compared(compare(args, TRUE), compare(args, TRUE).cres <= 0)
    ELSE IF cond \in {"startswith", "endswith", "contains"}
    THEN IF Len(args) = 0 THEN CondResult(FALSE, "expected 2 argument")
         ELSE IF Len(args) = 2 THEN CondResult(Has(cond, args[2], args[1]), "")
         ELSE CondResult(FALSE, "")
    ELSE CondResult(FALSE, "invalid condition")

\* evalConditional: cond is the condition's words, paren tells that they stood
\* between `(` and `)`; a condition that is not parenthesised is true unless
\* it is empty or "0".
evalConditional(paren, cond) ==
    IF paren
    THEN IF Len(cond) = 0 THEN CondResult(FALSE, "invalid condition")
         ELSE evalOperator(cond[1], Tail(cond))
    ELSE CondResult(~(Join(cond, " ") = "" \/ Join(cond, " ") = "0"), "")

CondWords == {"0", "1", "("}

\* command_conditional: a leading `!` negates the condition.
IsNegated(w) == \E c \in CondWords : w = "!" \o c

StripNegation(w) == IF IsNegated(w) THEN CHOOSE c \in CondWords : w = "!" \o c ELSE w

\* args.GetOptions: the leading words that begin with `-`.
OptionWords ==
    {"-g", "--global", "-p", "--parent", "--return",
     "-r", "-rm", "--remove", "-u", "--unset", "-x"}

RECURSIVE LeadingOptions(_)
LeadingOptions(line) ==
    IF Len(line) > 0 /\ line[1] \in OptionWords
    THEN <<line[1]>> \o LeadingOptions(Tail(line))
    ELSE << >>

\* The switch of command_variable over the options, in order.
RECURSIVE ScanVarOptions(_, _)
ScanVarOptions(options, acc) ==
    IF Len(options) = 0 THEN acc
    ELSE LET op == Head(options)
         IN  IF op \in {"-g", "--global"}
             THEN ScanVarOptions(Tail(options), [acc EXCEPT !.scope = "global"])
             ELSE IF op \in {"-p", "--parent", "--return"}
             THEN ScanVarOptions(Tail(options), [acc EXCEPT !.scope = "parent"])
             ELSE IF op \in {"-r", "-rm", "--remove", "-u", "--unset"}
             THEN ScanVarOptions(Tail(options), [acc EXCEPT !.remove = TRUE])
             ELSE [acc EXCEPT !.invalid = TRUE]

\* What command_variable does to the stack: the write it makes, if any.
\* op is "set", "unset" or "none".
VarWrite(params) ==
    LET options == LeadingOptions(params)
        rest    == SubSeq(params, Len(options) + 1, Len(params))
        o       == ScanVarOptions(options, [scope |-> "invalid", remove |-> FALSE,
                                            invalid |-> FALSE])
        none    == [op |-> "none", name |-> "", value |-> "", scope |-> o.scope]
    IN  IF o.invalid \/ Len(rest) = 0 THEN none
        ELSE IF Len(rest) >= 2
        THEN IF o.remove THEN none
             ELSE [op |-> "set", name |-> rest[1],
                   value |-> Join(Tail(rest), " "), scope |-> o.scope]
        ELSE IF o.remove
        THEN [op |-> "unset", name |-> rest[1], value |-> "", scope |-> o.scope]
        ELSE none

command_variable(s, params) ==
    LET w == VarWrite(params)
    IN  IF w.op = "set" THEN SetVar(s, w.name, w.value, w.scope)
        ELSE IF w.op = "unset" THEN UnsetVar(s, w.name, w.scope)
        ELSE s

MaxCount == 2

\* command_repeat: count := int64(math.MaxInt64), "almost forever"; the model
\* keeps the largest number its integers hold.
AlmostForever == 2147483647

\* strconv.ParseInt(arg[8:], 10, 64) of a --count= option that spells a number.
IsCountOption(w) == \E n \in (0 - MaxCount)..MaxCount : w = "--count=" \o Itoa(n)

MaxWait == 2

\* parseWait(arg[7:]) of a --wait= option, in seconds.
IsWaitOption(w) == \E n \in 0..MaxWait : w = "--wait=" \o Itoa(n)

\* newLoop(count): nil for 0, 1..count upwards, -count..1 downwards.
newLoop(count) ==
    IF count > 0 THEN [nil |-> FALSE, start |-> 1, end |-> count, step |-> 1, Index |-> 0]
    ELSE IF count < 0
    THEN [nil |-> FALSE, start |-> 0 - count, end |-> 1, step |-> 0 - 1, Index |-> 0]
    ELSE [nil |-> TRUE, start |-> 0, end |-> 0, step |-> 0, Index |-> 0]

\* A loop that is over once its first iteration is done.
LoopEndsAfterFirst(l) == ~(l.nil \/ l.Index = l.end \/ l.Index = l.start)

\* loop.Next: FALSE when the loop is over, otherwise Index moves on.
LoopHasNext(l) == ~(l.nil \/ l.Index = l.end)

LoopAdvance(l) == [l EXCEPT !.Index = IF l.Index = 0 THEN l.start ELSE l.Index + l.step]

LoopFirst(l) == l.Index = l.start

\* The option loop of command_repeat.  ok is FALSE when the command returns
\* before reading its block ("nothing to repeat", "invalid option").
RECURSIVE RepeatOptions(_, _)
RepeatOptions(line, acc) ==
    IF Len(line) > 0 /\ (IsCountOption(line[1]) \/ IsWaitOption(line[1]) \/ line[1] \in OptionWords \cup {"--"})
    THEN IF Len(line) < 2 THEN [acc EXCEPT !.ok = FALSE]
         ELSE IF line[1] = "--" THEN [acc EXCEPT !.body = Tail(line)]
         ELSE IF IsCountOption(line[1])
         THEN RepeatOptions(Tail(line),
                            [acc EXCEPT !.count = CHOOSE n \in (0 - MaxCount)..MaxCount :
                                                      line[1] = "--count=" \o Itoa(n),
                                        !.body = Tail(line)])
         ELSE IF IsWaitOption(line[1])
         THEN RepeatOptions(Tail(line),
                            [acc EXCEPT !.wait = CHOOSE n \in 0..MaxWait :
                                                     line[1] = "--wait=" \o Itoa(n),
                                        !.body = Tail(line)])
         ELSE [acc EXCEPT !.ok = FALSE]
    ELSE [acc EXCEPT !.body = line]

\* getList of a `( a b ... )` list or of a single word, with the command
\* that follows it (args.GetArgsN(line, 2)).
RECURSIVE UpToClose(_)
UpToClose(line) ==
    IF Len(line) = 0 \/ line[1] = ")" THEN << >>
    ELSE <<line[1]>> \o UpToClose(Tail(line))

ForeachParts(line) ==
    IF HasPrefix(line, "(")
    THEN LET items == UpToClose(Tail(line))
         IN  [items |-> items, command |-> SubSeq(line, Len(items) + 3, Len(line))]
    ELSE IF Len(line) = 0 THEN [items |-> << >>, command |-> << >>]
    ELSE [items |-> <<line[1]>>, command |-> Tail(line)]
-----------------------------------------------------------------------------
(* Spec: the interpreter.  cstack is the Go call stack of the main task:    *)
(* one activation per running runLoop ("run") and per running               *)
(* command_repeat / command_foreach ("loop").  A run activation reads a     *)
(* line ("read"), dispatches it ("exec") and, when the line ran a nested    *)
(* construct, takes its result ("post").  depth, fresh, callArgs, entry,    *)
(* log, from and resumed are history: they record what the activation saw,  *)
(* as do cmd (the line as dispatched), ran (the lines read so far), b1 and  *)
(* b2 (the blocks read by the `if` that runs the activation), readFrom (the *)
(* kind of Line Source the last line came from) and starts (the Interrupt   *)
(* Flag at the start of each iteration of a loop).  A task started by `go`  *)
(* begins with the activation of its OneCmd call ("once").                  *)

MaxInput == 2

MaxSignals == 1

\* The newscope argument at the three call sites of RunBlock.
NewScopeForConditional == FALSE

NewScopeForLoopBody == FALSE

NewScopeForFunction == TRUE

BaseActivation ==
    [kind |-> "run", pc |-> "read", main |-> FALSE, name |-> "", caller |-> "main",
     newscope |-> FALSE, prev |-> LinerScanner, line |-> << >>, ret |-> FALSE,
     from |-> "", resumed |-> "", depth |-> 1, fresh |-> FALSE, callArgs |-> << >>,
     entry |-> << >>, log |-> << >>,
     foreach |-> FALSE, l |-> newLoop(0), items |-> << >>, wait |-> 0, left |-> 0,
     block |-> << >>, cmd |-> << >>, ran |-> << >>, b1 |-> << >>, b2 |-> << >>,
     readFrom |-> "", starts |-> << >>]

Top(stk) == stk[Len(stk)]

Pop(stk) == SubSeq(stk, 1, Len(stk) - 1)

SetTop(stk, a) == [stk EXCEPT ![Len(stk)] = a]

\* The interpreter's state as one value, so that a handler is a function on it.
Cur ==
    [scopes |-> scopes, scanner |-> scanner, pending |-> pending,
     functions |-> functions, interrupted |-> interrupted, inLoop |-> inLoop,
     cstack |-> cstack, lastRet |-> lastRet, signals |-> signals, proc |-> proc,
     reported |-> reported]

Commit(m) ==
    /\ scopes' = m.scopes
    /\ scanner' = m.scanner
    /\ pending' = m.pending
    /\ functions' = m.functions
    /\ interrupted' = m.interrupted
    /\ inLoop' = m.inLoop
    /\ cstack' = m.cstack
    /\ lastRet' = m.lastRet
    /\ signals' = m.signals
    /\ proc' = m.proc
    /\ reported' = m.reported
    /\ UNCHANGED <<got, typed, goVars, expVars>>

\* RunBlockNoPrepend: RunBlock handing its args on without the function's name.
RunBlockArgsNoName(name, args) == args

\* RunBlock: if args != nil { args = append([]string{name}, args...) }
RunBlockArgs(name, args) == IF args.nil THEN args ELSE Args(<<name>> \o args.v)

\* A RunBlock that pushes a scope whatever newscope says.
RunBlockPushAlways(s, args, newscope) == PushScope(s, NoFrame, args)

\* A RunBlock that never pushes a scope.
RunBlockPushNever(s, args, newscope) == s

\* RunBlock: if newscope { cmd.context.PushScope(nil, args) }
RunBlockPush(s, args, newscope) == IF newscope THEN PushScope(s, NoFrame, args) ELSE s

\* A RunBlock that forgets to pop.
RunBlockPopNever(s, newscope) == s

\* RunBlock: if newscope { cmd.context.PopScope() }
RunBlockPop(s, newscope) == IF newscope THEN PopScope(s) ELSE s

\* A RunBlock that hands shouldStop on whatever the block's name.
RunBlockStopAlways(name, shouldStop) == shouldStop

\* RunBlock: if name == "" { stop = shouldStop }
RunBlockStop(name, shouldStop) == IF name = "" THEN shouldStop ELSE FALSE

\* RunBlock up to its call of runLoop(false), made by the top activation,
\* which then waits for the result.
RunBlockEnter(m, name, body, args, newscope, caller) ==
    LET s1 == RunBlockPush(m.scopes, RunBlockArgs(name, args), newscope)
        a  == [BaseActivation EXCEPT
                  !.name = name, !.caller = caller, !.newscope = newscope,
                  !.prev = m.scanner, !.depth = Len(s1), !.fresh = TRUE,
                  !.callArgs = args.v, !.block = body,
                  !.entry = IF name /= "" THEN m.scopes ELSE << >>]
    IN  [m EXCEPT !.scopes = s1, !.scanner = [kind |-> "lines", lines |-> body],
                  !.cstack = Append(@, a)]

\* A RunBlock that leaves the block's Line Source in place when it returns.
RunBlockKeepsScanner(prev, cur) == cur

\* RunBlock: cmd.context.SetScanner(prev)
RunBlockRestore(prev, cur) == prev

\* The top run activation's runLoop has ended with shouldStop (cmdStop is what
\* its last command returned): the rest of RunBlock, or of CmdLoop for the
\* main loop, and the result handed to the activation below.
Return(m, cmdStop, shouldStop) ==
    LET F == Top(m.cstack)
    IN  IF F.main
        THEN [m EXCEPT !.proc = "exited", !.cstack = <<[F EXCEPT !.pc = "done"]>>]
        ELSE IF F.newscope /\ PopScopePanics(m.scopes) THEN [m EXCEPT !.proc = "panic"]
        ELSE LET s1   == RunBlockPop(m.scopes, F.newscope)
                 stop == IF F.caller = "load" THEN cmdStop
                         ELSE RunBlockStop(F.name, shouldStop)
                 B    == Top(Pop(m.cstack))
                 B1   == [B EXCEPT !.ret = stop, !.from = F.caller,
                                   !.pc = IF B.kind = "run" THEN "post" ELSE "ret"]
             IN  [m EXCEPT
                     !.scopes = s1, !.scanner = RunBlockRestore(F.prev, m.scanner),
                     !.cstack = SetTop(Pop(m.cstack), B1),
                     !.lastRet = [name |-> F.name, caller |-> F.caller,
                                  byStop |-> cmdStop, shouldStop |-> shouldStop,
                                  stop |-> stop, before |-> m.scopes, after |-> s1,
                                  entry |-> F.entry, log |-> F.log, cmd |-> B.cmd,
                                  b1 |-> F.b1, b2 |-> F.b2, ran |-> F.ran]]

\* runLoop after OneCmd returned stop to the top run activation:
\* stop = PostCmd(line, stop) || (mainLoop == false && Interrupted())
\* A runLoop that lets the Interrupt Flag stop the main loop too.
LoopStopsOnFlagAlways(mainLoop, stop, flag) == stop \/ flag

\* runLoop: stop = cmd.PostCmd(line, stop) || (mainLoop == false && cmd.Interrupted())
LoopStops(mainLoop, stop, flag) == stop \/ (mainLoop = FALSE /\ flag)

\* cmd.PostCmd as cmd.Init sets it: func(line string, stop bool) bool { return stop }
PostCmd(stop) == stop

AfterCmd(m, stop, from) ==
    LET F     == Top(m.cstack)
        hook  == PostCmd(stop)
        stop2 == LoopStops(F.main, hook, m.interrupted)
    IN  IF F.kind = "once"
        THEN [m EXCEPT !.cstack = SetTop(@, [F EXCEPT !.pc = "done", !.ret = stop])]
        ELSE IF stop2 THEN Return(m, stop, stop2)
        ELSE [m EXCEPT !.cstack = SetTop(@, [F EXCEPT !.pc = "read", !.fresh = FALSE,
                                                      !.resumed = from, !.l = newLoop(0),
                                                      !.starts = << >>])]

\* fmt.Println(err) and the return that follows it.
Reports(m, kind, err, stop) ==
    AfterCmd([m EXCEPT !.reported = [cmd |-> Top(m.cstack).cmd, kind |-> kind,
                                     err |-> err, stop |-> stop, scopes |-> m.scopes,
                                     functions |-> m.functions]],
             stop, "cmd")

\* The top activation waits for the construct its line runs.
Waiting(m) == [m EXCEPT !.cstack = SetTop(@, [Top(@) EXCEPT !.pc = "post", !.fresh = FALSE])]

\* History: a write of command_variable is noted by every block under way.
LogWrite(stk, w, depth) ==
    [i \in 1..Len(stk) |->
        IF stk[i].kind = "run" /\ ~stk[i].main /\ w.op /= "none"
        THEN [stk[i] EXCEPT !.log = Append(@, [name |-> w.name, op |-> w.op,
                                               value |-> w.value, scope |-> w.scope,
                                               depth |-> depth])]
        ELSE stk[i]]

\* command_repeat / command_foreach from `cf.ctx.PushScope(nil, nil)` up to
\* their for loop.
LoopEnter(m, isForeach, count, items, wait, block) ==
    LET s1 == PushScope(m.scopes, NoFrame, NilArgs)
        s2 == SetVar(s1, "count", Itoa(count), "local")
        a  == [BaseActivation EXCEPT
                  !.kind = "loop", !.pc = "next", !.caller = "loop",
                  !.depth = Len(s2), !.foreach = isForeach, !.l = newLoop(count),
                  !.items = items, !.wait = wait, !.block = block]
    IN  [m EXCEPT !.scopes = s2, !.inLoop = TRUE, !.cstack = Append(@, a)]

\* A loop command that returns the stop its body returned.
LoopExitPassesStop(m) ==
    [m EXCEPT !.inLoop = FALSE, !.scopes = PopScope(@),
              !.cstack = SetTop(Pop(m.cstack),
                                [Top(Pop(m.cstack)) EXCEPT
                                    !.ret = Top(m.cstack).ret, !.from = "loop",
                                    !.pc = "post", !.l = Top(m.cstack).l,
                                    !.starts = Top(m.cstack).starts])]

\* The end of command_repeat / command_foreach: inLoop = false, PopScope,
\* return (stop is never assigned: false).  History: until its runLoop goes
\* on, the activation that ran the loop holds the loop's counter and starts.
LoopExit(m) ==
    IF PopScopePanics(m.scopes) THEN [m EXCEPT !.proc = "panic", !.inLoop = FALSE]
    ELSE LET B  == Top(Pop(m.cstack))
             B1 == [B EXCEPT !.ret = FALSE, !.from = "loop", !.pc = "post",
                             !.l = Top(m.cstack).l, !.starts = Top(m.cstack).starts]
         IN  [m EXCEPT !.inLoop = FALSE, !.scopes = PopScope(@),
                       !.cstack = SetTop(Pop(m.cstack), B1)]

\* One iteration's SetVar("index") (and "item"), then RunBlock("", block, nil).
LoopBody(m) ==
    LET L  == Top(m.cstack)
        s1 == IF L.foreach
              THEN SetVar(SetVar(m.scopes, "index", Itoa(L.l.Index - 1), "local"),
                          "item", L.items[L.l.Index], "local")
              ELSE SetVar(m.scopes, "index", Itoa(L.l.Index), "local")
        m1 == [m EXCEPT !.scopes = s1,
                        !.cstack = SetTop(@, [L EXCEPT !.pc = "ret",
                                                       !.starts = Append(@, m.interrupted)])]
    IN  RunBlockEnter(m1, "", L.block, NilArgs, NewScopeForLoopBody, "loop")

\* The state after a ReadBlock that left the input as b.in.
Read(m, b) ==
    [m EXCEPT !.scanner = b.in.sc, !.pending = b.in.pend,
              !.proc = IF b.err = "panic" THEN "panic" ELSE @]

InputOf(m) == [sc |-> m.scanner, pend |-> m.pending]

\* A command_function that also hands the new body to the block being run.
StoreFunctionLive(m, fname, b) ==
    AfterCmd([Read(m, b) EXCEPT !.functions = (fname :> b.block1) @@ @,
                                !.scanner = IF @.kind = "lines"
                                            THEN [@ EXCEPT !.lines = b.block1] ELSE @],
             FALSE, "cmd")

\* command_function once its block is read
StoreFunction(m, fname, b) ==
    IF b.err /= "" THEN Reports(Read(m, b), "syntax", b.err, TRUE)
    ELSE AfterCmd([Read(m, b) EXCEPT !.functions = (fname :> b.block1) @@ @],
                  FALSE, "cmd")

command_function(m, params) ==
    IF Len(params) < 2 THEN AfterCmd(m, FALSE, "cmd")
    ELSE IF Tail(params) = <<"--delete">>
    THEN AfterCmd([m EXCEPT !.functions = [n \in DOMAIN @ \ {params[1]} |-> @[n]]],
                  FALSE, "cmd")
    ELSE StoreFunction(m, params[1], ReadBlock(Tail(params), "", InputOf(m)))

\* command_conditional once the condition is evaluated and its blocks are read
BranchAlwaysTrue(res, b) == b.block1

\* if res { RunBlock("", trueBlock, nil) } else { RunBlock("", falseBlock, nil) }
Branch(res, b) == IF res THEN b.block1 ELSE b.block2

RunBranch(m, res, b) ==
    IF b.err /= "" THEN Reports(Read(m, b), "syntax", b.err, TRUE)
    ELSE [RunBlockEnter(Waiting(Read(m, b)), "", Branch(res, b),
                        NilArgs, NewScopeForConditional, "if")
          EXCEPT !.cstack = SetTop(@, [Top(@) EXCEPT !.b1 = b.block1, !.b2 = b.block2])]

\* args.GetArgsN(line, 2) of the line without its `!`: the condition, a
\* parenthesised group or one word, and the body.
CondSplit(params) ==
    IF StripNegation(params[1]) = "("
    THEN [negate |-> IsNegated(params[1]), paren |-> TRUE,
          cond |-> UpToClose(Tail(params)),
          body |-> SubSeq(params, Len(UpToClose(Tail(params))) + 3, Len(params))]
    ELSE [negate |-> IsNegated(params[1]), paren |-> FALSE,
          cond |-> <<StripNegation(params[1])>>, body |-> Tail(params)]

\* if negate { res = !res }
Negate(negate, res) == IF negate THEN ~res ELSE res

\* command_conditional once the condition is evaluated: an error stops.
Conditional(m, c, e) ==
    IF e.err /= "" THEN Reports(m, "predicate", e.err, TRUE)
    ELSE RunBranch(m, Negate(c.negate, e.res), ReadBlock(c.body, "else", InputOf(m)))

CondEval(m, c) ==
    IF Len(c.body) = 0 THEN Reports(m, "usage", "missing body", FALSE)
    ELSE Conditional(m, c, evalConditional(c.paren, c.cond))

command_conditional(m, params) ==
    IF Len(params) = 0 THEN Reports(m, "usage", "missing condition", FALSE)
    ELSE CondEval(m, CondSplit(params))

\* command_repeat / command_foreach once the block is read
RunLoop(m, isForeach, count, items, wait, b) ==
    IF b.err /= "" THEN Reports(Read(m, b), "syntax", b.err, FALSE)
    ELSE LoopEnter(Waiting(Read(m, b)), isForeach, count, items, wait, b.block1)

RepeatWith(m, o) ==
    IF ~o.ok THEN AfterCmd(m, FALSE, "cmd")
    ELSE RunLoop(m, FALSE, o.count, << >>, o.wait, ReadBlock(o.body, "", InputOf(m)))

command_repeat(m, params) ==
    RepeatWith(m, RepeatOptions(params, [ok |-> TRUE, count |-> AlmostForever,
                                         wait |-> 0, body |-> << >>]))

ForeachOver(m, o, items, command) ==
    IF Len(command) = 0 THEN Reports(m, "usage", "missing argument(s)", FALSE)
    ELSE RunLoop(m, TRUE, Len(items), items, o.wait, ReadBlock(command, "", InputOf(m)))

ForeachWith(m, o) ==
    IF ~o.ok THEN AfterCmd(m, FALSE, "cmd")
    ELSE ForeachOver(m, o, expandVariables(m.scopes, ForeachParts(o.body).items),
                     ForeachParts(o.body).command)

command_foreach(m, params) ==
    ForeachWith(m, RepeatOptions(params, [ok |-> TRUE, count |-> 0, wait |-> 0,
                                          body |-> << >>]))

\* What the user types at the prompt in one go: one line, or several lines
\* pasted together.
Snippets ==
    { << <<"var", "x", "1">> >>,
      << <<"function", "f", "var", "x", "2">> >>,
      << <<"function", "f", "{">>, <<"var", "z", "1">>, <<"var", "-g", "x", "2">>,
         <<"var", "-p", "y", "$1">>, <<"stop">>, <<"var", "x", "3">>, <<"}">> >>,
      << <<"function", "f", "repeat", "--count=2", "--wait=1", "var", "-p", "y", "2">> >>,
      << <<"function", "f", "x", "{">> >>,
      << <<"function", "g", "{">>, <<"var", "x", "1">>, <<"f", "a", "b">>,
         <<"if", "1", "stop">>, <<"var", "y", "2">>, <<"}">> >>,
      << <<"function", "g", "repeat", "--count=2", "f", "a">> >>,
      << <<"function", "f", "{">>, <<"var", "z", "1">>, <<"var", "-g", "x", "2">>,
         <<"var", "-p", "y", "$1">>, <<"stop">>, <<"var", "x", "3">>, <<"}">>,
         <<"function", "g", "{">>, <<"var", "x", "1">>, <<"f", "a", "b">>,
         <<"if", "1", "stop">>, <<"var", "y", "2">>, <<"}">> >>,
      << <<"function", "f", "repeat", "--count=2", "--wait=1", "var", "-p", "y", "2">>,
         <<"function", "g", "repeat", "--count=2", "f", "a">> >>,
      << <<"f", "a">> >>,
      << <<"g">> >>,
      << <<"if", "1", "var", "y", "2">> >>,
      << <<"if", "!1", "{">>, <<"var", "y", "1">>, <<"}", "else", "{">>, <<"g">>, <<"}">> >>,
      << <<"repeat", "--count=2", "--wait=1", "f", "a">> >>,
      << <<"foreach", "(", "a", "b", ")", "if", "1", "stop">> >>,
      << <<"repeat", "--count=2", "{">>, <<"var", "x", "1">> >>,
      << <<"if", "1", "x", "{">> >>,
      << <<"stop">> >>,
      << <<"#", "note">>, << >> >> }

\* The commands of cmd.Init and of the plugin's PluginInit.
Registered ==
    {"help", "echo", "go", "time", "output", "exit", "function", "var", "set",
     "shift", "if", "expr", "foreach", "repeat", "load", "sleep", "stop"}

Init ==
    /\ scopes = InitScopes
    /\ proc = "running"
    /\ got = NoCall
    /\ scanner = LinerScanner
    /\ pending = << >>
    /\ typed = 0
    /\ functions = << >>
    /\ interrupted = FALSE
    /\ inLoop = FALSE
    /\ cstack = <<[BaseActivation EXCEPT !.main = TRUE]>>   \* cmd.runLoop(true)
    /\ signals = NoSignal
    /\ lastRet = NoRet
    /\ reported = NoReport
    /\ GoIdle
    /\ ExpIdle

At(kind, pc) ==
    proc = "running" /\ Len(cstack) > 0 /\ Top(cstack).kind = kind /\ Top(cstack).pc = pc

\* The user types at the prompt of the main loop.
TypeFrom(snippets) ==
    /\ At("run", "read")
    /\ Len(cstack) = 1
    /\ pending = << >>
    /\ typed < MaxInput
    /\ \E sn \in snippets : pending' = sn
    /\ typed' = typed + 1
    /\ UNCHANGED <<scopes, proc, got, scanner, functions, interrupted, inLoop, cstack,
                   signals, lastRet, reported, goVars, expVars>>

Type == TypeFrom(Snippets)

\* A main loop that never clears the Interrupt Flag.
ClearInterruptedNever(mainLoop, flag) == flag

\* runLoop: if mainLoop { cmd.setInterrupted(false) }
ClearInterrupted(mainLoop, flag) == IF mainLoop THEN FALSE ELSE flag

\* runLoop: ReadLine; an error ends the loop, a blank or comment line is
\* skipped, the main loop clears the Interrupt Flag before it dispatches.
ReadStep(m) ==
    LET F  == Top(m.cstack)
        r  == ReadLine(InputOf(m))
        m0 == [m EXCEPT !.scanner = r.in.sc, !.pending = r.in.pend]
    IN  IF r.err /= "" THEN Return(m0, FALSE, FALSE)
        ELSE IF IsBlankOrComment(r.line) THEN m0
        ELSE [m0 EXCEPT
                 !.reported = NoReport,
                 !.interrupted = ClearInterrupted(F.main, @),
                 !.signals = IF F.main THEN [@ EXCEPT !.recent = FALSE] ELSE @,
                 !.cstack = SetTop(@, [F EXCEPT !.pc = IF Expands(m.scopes, r.line)
                                                       THEN "exec" ELSE "hung",
                                                !.line = r.line,
                                                !.cmd = Expanded(m.scopes, r.line),
                                                !.ran = IF F.main THEN @ ELSE Append(@, r.line),
                                                !.readFrom = m.scanner.kind])]

RunRead ==
    /\ At("run", "read")
    /\ Commit(ReadStep(Cur))

\* runFunction: the line as dispatched, its first word and the rest.  A line
\* read by runLoop was expanded when it was read; OneCmd called by `go`
\* expands its line itself.
ExpandedOf(m) ==
    IF Top(m.cstack).kind /= "once" THEN Top(m.cstack).cmd
    ELSE Expanded(m.scopes, Top(m.cstack).line)

\* The script files there are, and the lines they hold.
Files == "f" :> << <<"var", "-g", "y", "1">> >>

ScriptNames == {"f", "g"}

\* strings.HasPrefix(line, "@")
IsAtLine(line) ==
    Len(line) > 0 /\ (line[1] = "@" \/ \E n \in ScriptNames : line[1] = "@" \o n)

\* line = "load " + line[1:]
AtAsLoad(line) ==
    IF ~IsAtLine(line) THEN line
    ELSE IF line[1] = "@" THEN <<"load">> \o Tail(line)
    ELSE <<"load", CHOOSE n \in ScriptNames : line[1] = "@" \o n>> \o Tail(line)

DispatchedOf(m) == AtAsLoad(ExpandedOf(m))

CNameOf(m) == IF Len(DispatchedOf(m)) = 0 THEN "" ELSE DispatchedOf(m)[1]

ParamsOf(m) == IF Len(DispatchedOf(m)) = 0 THEN << >> ELSE Tail(DispatchedOf(m))

\* A runFunction that looks a name up among the functions only when no
\* command is registered under it.
IsCallOfUnregistered(m) ==
    /\ ~IsAtLine(ExpandedOf(m))
    /\ CNameOf(m) \in DOMAIN m.functions \ Registered

\* runFunction: the line does not start with `@` and its first word names a
\* user function.
IsCallOf(m) == ~IsAtLine(ExpandedOf(m)) /\ CNameOf(m) \in DOMAIN m.functions

\* The top activation of the main task is about to dispatch its line.
Ready == At("run", "exec")

\* runFunction: the first word names a user function.  args.GetArgs of an
\* empty parameter string gives a nil or an empty slice.
CallSteps(m) ==
    {RunBlockEnter(Waiting(m), CNameOf(m), m.functions[CNameOf(m)],
                   IF isNil THEN NilArgs ELSE Args(ParamsOf(m)),
                   NewScopeForFunction, "call") :
        isNil \in (IF Len(ParamsOf(m)) = 0 THEN BOOLEAN ELSE {FALSE})}

ExecCall ==
    /\ Ready
    /\ IsCallOf(Cur)
    /\ \E m2 \in CallSteps(Cur) : Commit(m2)

\* oneCmd: the first word is not a registered command: cmd.Default(line)
ExecDefault ==
    /\ Ready
    /\ ~IsCallOf(Cur)
    /\ CNameOf(Cur) \notin Registered
    /\ Commit(AfterCmd(Cur, FALSE, "cmd"))

\* command_load: the lines of the script file are dispatched one by one, on
\* the Line Source that ScanReader has put in place.
command_load(m, params) ==
    IF Len(params) = 0 THEN Reports(m, "usage", "missing script file", FALSE)
    ELSE IF params[1] \notin DOMAIN Files THEN Reports(m, "load", "open", FALSE)
    ELSE [RunBlockEnter(Waiting(m), "", Files[params[1]], NilArgs, FALSE, "load")
          EXCEPT !.scanner.kind = "reader"]

ExecLoad ==
    /\ Ready
    /\ ~IsCallOf(Cur)
    /\ CNameOf(Cur) = "load"
    /\ Commit(command_load(Cur, ParamsOf(Cur)))

\* command_echo: the parameters are printed.
ExecEcho ==
    /\ Ready
    /\ ~IsCallOf(Cur)
    /\ CNameOf(Cur) = "echo"
    /\ Commit(AfterCmd(Cur, FALSE, "cmd"))

\* command_stop and command_exit
ExecStop ==
    /\ Ready
    /\ ~IsCallOf(Cur)
    /\ CNameOf(Cur) \in {"stop", "exit"}
    /\ Commit(AfterCmd(Cur, TRUE, "cmd"))

\* command_variable (`var` and `set`)
VarStep(m) ==
    AfterCmd([m EXCEPT !.scopes = command_variable(m.scopes, ParamsOf(m)),
                       !.cstack = LogWrite(@, VarWrite(ParamsOf(m)), Len(m.scopes))],
             FALSE, "cmd")

ExecVar ==
    /\ Ready
    /\ ~IsCallOf(Cur)
    /\ CNameOf(Cur) \in {"var", "set"}
    /\ Commit(VarStep(Cur))

\* command_function
ExecFunction ==
    /\ Ready
    /\ ~IsCallOf(Cur)
    /\ CNameOf(Cur) = "function"
    /\ Commit(command_function(Cur, ParamsOf(Cur)))

\* command_conditional
ExecIf ==
    /\ Ready
    /\ ~IsCallOf(Cur)
    /\ CNameOf(Cur) = "if"
    /\ Commit(command_conditional(Cur, ParamsOf(Cur)))

\* command_repeat up to its for loop
ExecRepeat ==
    /\ Ready
    /\ ~IsCallOf(Cur)
    /\ CNameOf(Cur) = "repeat"
    /\ Commit(command_repeat(Cur, ParamsOf(Cur)))

\* command_foreach up to its for loop
ExecForeach ==
    /\ Ready
    /\ ~IsCallOf(Cur)
    /\ CNameOf(Cur) = "foreach"
    /\ Commit(command_foreach(Cur, ParamsOf(Cur)))

\* runLoop takes the result of the construct its line ran.
RunPost ==
    /\ At("run", "post")
    /\ Commit(AfterCmd(Cur, Top(cstack).ret, Top(cstack).from))

\* The head of the for loop: the loop is over, or it moves on to the next
\* iteration, through sleepInterrupted when a wait was asked and this is not
\* the first iteration.
LoopNextStep(m) ==
    LET L  == Top(m.cstack)
        L1 == [L EXCEPT !.l = LoopAdvance(@)]
    IN  IF ~LoopHasNext(L.l) THEN LoopExit(m)
        ELSE IF L.wait > 0 /\ ~LoopFirst(L1.l)
        THEN [m EXCEPT !.cstack = SetTop(@, [L1 EXCEPT !.pc = "sleep", !.left = L.wait])]
        ELSE LoopBody([m EXCEPT !.cstack = SetTop(@, L1)])

LoopNext ==
    /\ At("loop", "next")
    /\ Commit(LoopNextStep(Cur))

\* A sleepInterrupted that never looks at the Interrupt Flag.
SleepInterruptedNever(flag) == FALSE

\* sleepInterrupted: if cf.cmd.Interrupted() { return true }
SleepInterrupted(flag) == flag

\* sleepInterrupted: a slice of at most one second has passed.
LoopWakeStep(m) ==
    LET L == Top(m.cstack)
    IN  IF SleepInterrupted(m.interrupted) THEN LoopExit(m)
        ELSE IF L.left > 1
        THEN [m EXCEPT !.cstack = SetTop(@, [L EXCEPT !.left = @ - 1])]
        ELSE LoopBody(m)

LoopWake ==
    /\ At("loop", "sleep")
    /\ Commit(LoopWakeStep(Cur))

\* A loop that only ends early when its body asks for it.
LoopBreaksOnStopOnly(ret, flag) == ret

\* if cf.cmd.RunBlock("", block, nil) || cf.cmd.Interrupted() { break }
LoopBreaks(ret, flag) == ret \/ flag

LoopRetStep(m) ==
    LET L == Top(m.cstack)
    IN  IF LoopBreaks(L.ret, m.interrupted) THEN LoopExit(m)
        ELSE [m EXCEPT !.cstack = SetTop(@, [L EXCEPT !.pc = "next"])]

LoopRet ==
    /\ At("loop", "ret")
    /\ Commit(LoopRetStep(Cur))

\* The signal task of CmdLoop receives a signal: setInterrupted(true).
SignalArrive ==
    /\ proc = "running"
    /\ cstack /= << >>
    /\ signals.count < MaxSignals
    /\ signals.handling = "none"
    /\ \E sig \in {"INT", "TERM"} :
           signals' = [count |-> signals.count + 1, handling |-> sig, recent |-> TRUE]
    /\ interrupted' = TRUE
    /\ UNCHANGED <<scopes, proc, got, scanner, pending, typed, functions, inLoop,
                   cstack, lastRet, reported, goVars, expVars>>

\* ... then asks cmd.Interrupt: the plugin's interruptFunction answers false
\* for an interrupt while inLoop, and otherwise what the application's handler
\* answers (true by default); true raises the signal again and ends the process.
SignalDecide ==
    /\ proc = "running"
    /\ signals.handling /= "none"
    /\ \E kill \in (IF signals.handling = "INT" /\ inLoop THEN {FALSE} ELSE BOOLEAN) :
           proc' = IF kill THEN "killed" ELSE proc
    /\ signals' = [signals EXCEPT !.handling = "none"]
    /\ UNCHANGED <<scopes, got, scanner, pending, typed, functions, interrupted,
                   inLoop, cstack, lastRet, reported, goVars, expVars>>

\* What the interpreter does with the lines it reads.
Step ==
    \/ RunRead
    \/ ExecCall
    \/ ExecDefault
    \/ ExecStop
    \/ ExecVar
    \/ ExecFunction
    \/ ExecIf
    \/ ExecRepeat
    \/ ExecForeach
    \/ RunPost
    \/ LoopNext
    \/ LoopWake
    \/ LoopRet
    \/ SignalArrive
    \/ SignalDecide

Next == Type \/ Step

Spec == Init /\ [][Next]_vars

-----------------------------------------------------------------------------
(* SpecShare: the main loop and the tasks started by `go`.  A task runs     *)
(* cmd.OneCmd(line) on the Cmd and the internal.Context of the main loop:   *)
(* tasks[i].cstack is its call stack, every other part of the state is the  *)
(* one the main loop uses.  The lines of this specification start tasks     *)
(* while no barrier is open (cmd.waitGroup == nil).                         *)

\* The next steps of the task whose call stack is on top of m: what RunRead,
\* the Exec actions, RunPost and the Loop actions do for the main task.
ExecSteps(m) ==
    IF Top(m.cstack).kind = "once" /\ ~Expands(m.scopes, Top(m.cstack).line) THEN {}
    ELSE IF IsCallOf(m) THEN CallSteps(m)
    ELSE IF CNameOf(m) \notin Registered \/ CNameOf(m) = "echo"
    THEN {AfterCmd(m, FALSE, "cmd")}
    ELSE IF CNameOf(m) \in {"stop", "exit"} THEN {AfterCmd(m, TRUE, "cmd")}
    ELSE IF CNameOf(m) \in {"var", "set"} THEN {VarStep(m)}
    ELSE IF CNameOf(m) = "function" THEN {command_function(m, ParamsOf(m))}
    ELSE IF CNameOf(m) = "if" THEN {command_conditional(m, ParamsOf(m))}
    ELSE IF CNameOf(m) = "repeat" THEN {command_repeat(m, ParamsOf(m))}
    ELSE IF CNameOf(m) = "foreach" THEN {command_foreach(m, ParamsOf(m))}
    ELSE IF CNameOf(m) = "load" THEN {command_load(m, ParamsOf(m))}
    ELSE {}

Steps(m) ==
    IF Top(m.cstack).kind = "loop"
    THEN IF Top(m.cstack).pc = "next" THEN {LoopNextStep(m)}
         ELSE IF Top(m.cstack).pc = "sleep" THEN {LoopWakeStep(m)}
         ELSE {LoopRetStep(m)}
    ELSE IF Top(m.cstack).pc = "read" THEN {ReadStep(m)}
    ELSE IF Top(m.cstack).pc = "post"
    THEN {AfterCmd(m, Top(m.cstack).ret, Top(m.cstack).from)}
    ELSE IF Top(m.cstack).pc = "exec" THEN ExecSteps(m)
    ELSE {}

\* go cmd.OneCmd(line): the task's call of OneCmd
OneCmd(line) == [BaseActivation EXCEPT !.kind = "once", !.pc = "exec", !.line = line]

CommitTask(i, m) ==
    /\ scopes' = m.scopes
    /\ scanner' = m.scanner
    /\ pending' = m.pending
    /\ functions' = m.functions
    /\ interrupted' = m.interrupted
    /\ inLoop' = m.inLoop
    /\ proc' = m.proc
    /\ reported' = m.reported
    /\ tasks' = [tasks EXCEPT ![i].cstack = m.cstack]
    /\ UNCHANGED <<got, typed, cstack, signals, lastRet, expVars,
                   waitGroup, counters, waitCount, waitMax, gopc, goret, issued>>

\* command_go of a line that is no option and not another `go`, while
\* cmd.waitGroup == nil: go cmd.OneCmd(line)
ExecGo ==
    /\ Ready
    /\ ~IsCallOf(Cur)
    /\ CNameOf(Cur) = "go"
    /\ Len(ParamsOf(Cur)) > 0
    /\ ~HasPrefix(ParamsOf(Cur), "go")
    /\ waitGroup = 0
    /\ tasks' = Append(tasks, [cstack |-> <<OneCmd(ParamsOf(Cur))>>])
    /\ LET m == AfterCmd(Cur, FALSE, "cmd")
       IN  /\ cstack' = m.cstack
           /\ lastRet' = m.lastRet
           /\ scopes' = m.scopes
           /\ scanner' = m.scanner
           /\ proc' = m.proc
    /\ UNCHANGED <<got, pending, typed, functions, interrupted, inLoop, signals, expVars,
                   reported, waitGroup, counters, waitCount, waitMax, gopc, goret, issued>>

\* A task started by `go` takes its next step.
TaskStep ==
    \E i \in 1..Len(tasks) :
        /\ proc = "running"
        /\ \E m \in Steps([Cur EXCEPT !.cstack = tasks[i].cstack]) : CommitTask(i, m)

ShareSnippets ==
    { << <<"function", "f", "{">>, <<"var", "x", "2">>, <<"stop">>, <<"var", "y", "2">>,
         <<"}">> >>,
      << <<"go", "f">>, <<"var", "x", "1">> >>,
      << <<"go", "var", "y", "1">> >>,
      << <<"f">> >>,
      << <<"var", "x", "1">> >> }

NextShare ==
    \/ TypeFrom(ShareSnippets)
    \/ RunRead
    \/ ExecCall
    \/ ExecDefault
    \/ ExecStop
    \/ ExecVar
    \/ ExecFunction
    \/ ExecGo
    \/ RunPost
    \/ TaskStep

SpecShare == Init /\ [][NextShare]_vars

\* C11: the main loop reads every line it dispatches from the terminal, its
\* own Line Source, whatever the tasks started by `go` are running: the Line
\* Source is not among the state shared between the main loop and the tasks.
C11_MainReadsItsOwnSource ==
    Len(cstack) >= 1 => cstack[1].readFrom \in {"", "liner"}

-----------------------------------------------------------------------------
(* expandVariables pass by pass (SpecExpand).  The variables are those of   *)
(* the global frame, set as `var x 1`, `var x $$x` and `var x $$y` set      *)
(* them; xin is the line handed to expandVariables and xline the lines the  *)
(* call has gone through, the last one being the line it now holds.         *)

MaxLen == 2

MaxPasses == 4

InitExpand ==
    /\ \E S \in SUBSET {"x", "y"} :
           \E f \in [S -> {"1", "$x", "$y"}] : scopes = <<f @@ InitScopes[1]>>
    /\ proc = "running"
    /\ got = NoCall
    /\ InterpIdle
    /\ GoIdle
    /\ ExpIdle

\* line = strings.Replace(line, "$$", fat, -1)
ExpandBegin ==
    /\ xpc \in {"idle", "done"}
    /\ \E n \in 1..MaxLen :
           \E line \in [1..n -> {"a", "$x", "$(y)", "$$x"}] :
               /\ xin' = line
               /\ xline' = <<Protect(line)>>
    /\ xpc' = "scan"
    /\ UNCHANGED <<scopeVars, interpVars, goVars>>

\* One turn of the for loop in which found is set.  The model follows a call
\* for MaxPasses passes.
ExpandPass ==
    /\ xpc = "scan"
    /\ Found(xline[Len(xline)])
    /\ Len(xline) <= MaxPasses
    /\ xline' = Append(xline, ExpandPassOver(scopes, xline[Len(xline)]))
    /\ UNCHANGED <<scopeVars, interpVars, goVars, xpc, xin>>

\* The turn in which found stays false: break, restore, return.
ExpandEnd ==
    /\ xpc = "scan"
    /\ ~Found(xline[Len(xline)])
    /\ xline' = Append(xline, Restore(xline[Len(xline)]))
    /\ xpc' = "done"
    /\ UNCHANGED <<scopeVars, interpVars, goVars, xin>>

NextExpand == ExpandBegin \/ ExpandPass \/ ExpandEnd

SpecExpand == InitExpand /\ [][NextExpand]_vars

\* C16: expansion terminates for every line and every store.  A pass gives
\* the same line whenever it starts from the same line, so a call whose
\* passes are bounded never comes back to a line it has already held.
C16_NoLineHeldTwice ==
    xpc = "scan" => \A i, j \in 1..Len(xline) : i /= j => xline[i] /= xline[j]

\* What a word stands for: the value of the name it refers to, that value
\* taken the same way, nothing for a name that is not set, `$x` for `$$x`.
RECURSIVE C17_Value(_, _, _)
C17_Value(s, w, fuel) ==
    IF \E n \in {"x", "y"} : w = "$$" \o n
    THEN "$" \o (CHOOSE n \in {"x", "y"} : w = "$$" \o n)
    ELSE IF fuel > 0 /\ \E n \in {"x", "y"} : w \in {"$" \o n, "$(" \o n \o ")"}
    THEN LET n == CHOOSE n \in {"x", "y"} : w \in {"$" \o n, "$(" \o n \o ")"}
         IN  IF n \in DOMAIN s[1] THEN C17_Value(s, s[1][n], fuel - 1) ELSE ""
    ELSE w

\* C17: a call of expandVariables that returns gives the line with every
\* reference replaced by the value of its name, references in values
\* replaced too, and nothing where the name is not set.
C17_ExpandsThroughValues ==
    xpc = "done"
        => xline[Len(xline)]
               = SelectSeq([i \in 1..Len(xin) |-> C17_Value(scopes, xin[i], 3)],
                           LAMBDA w : w /= "")

\* After `var x 1` and `var y $$x`, `$(y)` has expanded to `1`.
C17_Witness ==
    /\ xpc = "done"
    /\ xin = <<"$(y)">>
    /\ GetVar(scopes, "y").v = "$x"
    /\ GetVar(scopes, "x").v = "1"
    /\ xline[Len(xline)] = <<"1">>


-----------------------------------------------------------------------------
(* Properties of the interpreter.                                          *)

\* An activation that pushed a scope frame of its own.
Pushes(a) == a.kind = "loop" \/ a.newscope

\* The last write to w.name noted in log is the k-th one.
LastWrite(log, k) == \A j \in (k + 1)..Len(log) : log[j].name /= log[k].name

\* C1: whenever control is in an activation of the main task the scope stack
\* has the depth it had when the activation began: every construct under way
\* has pushed exactly its own frame (one for a loop, one for a block run with a
\* new scope, none otherwise), every construct that has returned - normally, by
\* stop, by an interrupt or by a block syntax error - has popped what it
\* pushed, and between two top-level commands the depth is 1.
C1_DepthBalanced ==
    proc \in {"running", "exited"} =>
        /\ cstack[1].depth = 1
        /\ \A i \in 2..Len(cstack) :
               cstack[i].depth = cstack[i - 1].depth + (IF Pushes(cstack[i]) THEN 1 ELSE 0)
        /\ Len(scopes) = Top(cstack).depth

\* A top-level loop whose body called a function has been ended by an
\* interrupt and the main loop is back at its prompt.
C1_Witness ==
    /\ proc = "running"
    /\ Len(cstack) = 1
    /\ cstack[1].pc = "read"
    /\ cstack[1].resumed = "loop"
    /\ interrupted
    /\ "f" \in DOMAIN functions
    /\ lastRet.caller = "loop"
    /\ lastRet.shouldStop
    /\ ~lastRet.byStop
    /\ Len(scopes) = 1

C3_Returned ==
    /\ lastRet.name /= "" => lastRet.stop = FALSE
    /\ lastRet.name = "" => lastRet.stop = lastRet.shouldStop
    /\ (At("run", "post") /\ Top(cstack).from = "call") => Top(cstack).ret = FALSE
    /\ (At("run", "post") /\ Top(cstack).from = "if")
           => Top(cstack).ret = lastRet.shouldStop
    /\ At("loop", "ret") => Top(cstack).ret = lastRet.shouldStop

C3_CallerGoesOn ==
    (/\ At("run", "post")
     /\ Top(cstack).from = "call"
     /\ cstack' /= cstack
     /\ Top(cstack).main \/ ~interrupted)
        => /\ Len(cstack') = Len(cstack)
           /\ Top(cstack').pc = "read"

\* C3: a user function's RunBlock returns stop = false whatever its body's
\* runLoop returned, so a stop raised by a line of the body ends that body
\* only, and the caller's runLoop, which gets false, reads its next line
\* (unless the caller is a nested loop and the Interrupt Flag is set, which
\* ends it on its own account); an unnamed block's RunBlock returns what its
\* runLoop returned to the conditional or loop that ran it.
C3_StopEndsOnlyFunction == []C3_Returned /\ [][C3_CallerGoesOn]_vars

\* A function whose body raised stop has returned and its caller, the body of
\* another function, has gone on to read its next line.
C3_Witness ==
    /\ At("run", "exec")
    /\ Top(cstack).name = "g"
    /\ Top(cstack).resumed = "call"
    /\ lastRet.name = "f"
    /\ lastRet.byStop
    /\ ~lastRet.stop

NamesOf(s, log) ==
    UNION {DOMAIN s[i] : i \in 1..Len(s)} \cup {log[k].name : k \in 1..Len(log)}

\* Every write to n noted in log was made with the default (local) target.
OnlyLocalWrites(log, n) ==
    \A k \in 1..Len(log) : log[k].name = n => log[k].scope = "invalid"

\* C5 (as stated, second part): a variable whose last write during a function
\* call was a set with the parent or global target has that value for the
\* caller after the call returns.
C5_OuterSetsVisible ==
    lastRet.caller = "call" =>
        \A k \in 1..Len(lastRet.log) :
            (/\ LastWrite(lastRet.log, k)
             /\ lastRet.log[k].op = "set"
             /\ lastRet.log[k].scope \in {"parent", "global"})
                => GetVar(lastRet.after, lastRet.log[k].name)
                       = [v |-> lastRet.log[k].value, ok |-> TRUE]

\* C5 (amended): a function body runs in a frame pushed for the call and
\* popped at its return; a name that the call wrote only with the default
\* target is, after the return, bound as it was before the call; a name whose
\* last write was a set with the global target is bound to that value in the
\* global frame, and the caller's get yields it unless a frame above the
\* global one binds the name; a name whose last write was a set with the
\* parent target made in the call's own frame is bound to that value in the
\* caller's frame and the caller's get yields it.
C5_FunctionScope ==
    /\ \A i \in 2..Len(cstack) :
           cstack[i].caller = "call" =>
               /\ cstack[i].depth = cstack[i - 1].depth + 1
               /\ Len(cstack[i].entry) = cstack[i - 1].depth
    /\ lastRet.caller = "call" =>
           /\ Len(lastRet.after) = Len(lastRet.entry)
           /\ \A n \in NamesOf(lastRet.before, lastRet.log) :
                  OnlyLocalWrites(lastRet.log, n)
                      => GetVar(lastRet.after, n) = GetVar(lastRet.entry, n)
           /\ \A k \in 1..Len(lastRet.log) :
                  (LastWrite(lastRet.log, k) /\ lastRet.log[k].op = "set") =>
                      LET w == lastRet.log[k]
                          d == Len(lastRet.after)
                      IN  /\ w.scope = "global" =>
                                 /\ w.name \in DOMAIN lastRet.after[1]
                                 /\ lastRet.after[1][w.name] = w.value
                                 /\ (\A i \in 2..d : w.name \notin DOMAIN lastRet.after[i])
                                        => GetVar(lastRet.after, w.name)
                                               = [v |-> w.value, ok |-> TRUE]
                          /\ (w.scope = "parent" /\ w.depth = d + 1) =>
                                 /\ w.name \in DOMAIN lastRet.after[d]
                                 /\ lastRet.after[d][w.name] = w.value
                                 /\ GetVar(lastRet.after, w.name)
                                        = [v |-> w.value, ok |-> TRUE]

\* A call has returned whose body set x with the default target, where x was
\* bound to something else before the call, and set y with the parent target.
C5_Witness ==
    /\ lastRet.caller = "call"
    /\ \E k \in 1..Len(lastRet.log) :
           /\ lastRet.log[k].scope = "invalid"
           /\ lastRet.log[k].op = "set"
           /\ OnlyLocalWrites(lastRet.log, lastRet.log[k].name)
           /\ GetVar(lastRet.before, lastRet.log[k].name).v = lastRet.log[k].value
           /\ GetVar(lastRet.after, lastRet.log[k].name).v /= lastRet.log[k].value
    /\ \E k \in 1..Len(lastRet.log) :
           /\ lastRet.log[k].scope = "parent"
           /\ lastRet.log[k].depth = Len(lastRet.after) + 1
           /\ GetVar(lastRet.after, lastRet.log[k].name).v = lastRet.log[k].value

\* C6: when the body of a user function called as `f a1 .. aN`, N >= 1, starts,
\* the frame on top of the stack is the one pushed for the call and binds
\* exactly 0 to f, i to ai for 1 <= i <= N, # to N and * to a1 .. aN joined by
\* single blanks.
C6_ArgumentsBound ==
    \A i \in 1..Len(cstack) :
        (/\ cstack[i].kind = "run"
         /\ cstack[i].caller = "call"
         /\ cstack[i].fresh
         /\ Len(cstack[i].callArgs) >= 1)
            => LET a  == cstack[i]
                   N  == Len(a.callArgs)
                   fr == scopes[Len(scopes)]
               IN  /\ i = Len(cstack)
                   /\ Len(scopes) = Len(a.entry) + 1
                   /\ DOMAIN fr = {Itoa(k) : k \in 0..N} \cup {"#", "*"}
                   /\ fr["0"] = a.name
                   /\ \A k \in 1..N : fr[Itoa(k)] = a.callArgs[k]
                   /\ fr["#"] = Itoa(N)
                   /\ fr["*"] = Join(a.callArgs, " ")

\* The body of f, called as `f a b`, is about to run.
C6_Witness ==
    /\ At("run", "read")
    /\ Top(cstack).fresh
    /\ Top(cstack).name = "f"
    /\ Top(cstack).callArgs = <<"a", "b">>
    /\ scopes[Len(scopes)]["*"] = "a b"
    /\ scopes[Len(scopes)]["#"] = "2"
    /\ scopes[Len(scopes)]["2"] = "b"

-----------------------------------------------------------------------------
(* The Interrupt Flag and the loops (Spec).                                 *)

\* C12 (as stated): once the Interrupt Flag is set while a repeat or foreach
\* loop is executing, the loop starts no further iteration: from the second
\* on, no iteration of a loop under way starts with the flag set.
C12_NoIterationOnceFlagSet ==
    \A i \in 1..Len(cstack) :
        cstack[i].kind = "loop"
            => \A k \in 2..Len(cstack[i].starts) : ~cstack[i].starts[k]

\* C12 (amended): a loop looks at the Interrupt Flag after its body's
\* RunBlock returns and after each slice of the wait between iterations, and
\* ends there when the flag is set; a flag set after such a look is seen at
\* the next one, so an iteration that starts with the flag set is the loop's
\* last.
C12_LoopEndsAtItsNextLook ==
    /\ [](\A i \in 1..Len(cstack) :
             \A k \in 1..(Len(cstack[i].starts) - 1) : ~cstack[i].starts[k])
    /\ [][(/\ interrupted
           /\ At("loop", "ret") \/ At("loop", "sleep")
           /\ cstack' /= cstack) => Len(cstack') < Len(cstack)]_vars

\* A loop has ended with iterations left, at the look that follows a body
\* during which the flag was set and that no command stopped.
C12_Witness ==
    /\ At("run", "post")
    /\ Top(cstack).from = "loop"
    /\ interrupted
    /\ Top(cstack).l.Index /= Top(cstack).l.end
    /\ Len(Top(cstack).starts) >= 1
    /\ ~Top(cstack).starts[Len(Top(cstack).starts)]
    /\ lastRet.caller = "loop"
    /\ ~lastRet.byStop

\* C13 (as stated): when the Interrupt Flag is observed in nested constructs
\* only the innermost ends early: the block that holds a loop goes on with
\* the line after the loop once the loop has ended.
C13_HolderGoesOn ==
    [][(/\ At("run", "post")
        /\ Top(cstack).from = "loop"
        /\ cstack' /= cstack)
          => (Len(cstack') = Len(cstack) /\ Top(cstack').pc = "read")]_vars

\* C13 (amended): while the Interrupt Flag is set, every construct under the
\* top-level loop that gets control back ends: a nested runLoop stops after
\* the command that returned to it and a loop breaks at its look.
C13_EveryEnclosingConstructEnds ==
    [][(/\ interrupted
        /\ Len(cstack) > 1
        /\ At("run", "post") \/ At("loop", "ret") \/ At("loop", "sleep")
        /\ cstack' /= cstack) => Len(cstack') < Len(cstack)]_vars

\* An inner loop has ended with iterations left while the flag is set, and
\* the block that holds it runs inside another loop.
C13_Witness ==
    /\ At("run", "post")
    /\ Top(cstack).from = "loop"
    /\ interrupted
    /\ Top(cstack).l.Index /= Top(cstack).l.end
    /\ \E i \in 1..Len(cstack) : cstack[i].kind = "loop"

\* C14: the Interrupt Flag is cleared by the main loop when it has read a
\* line to dispatch, and nowhere else: a set flag always comes from a signal
\* received since the main loop last dispatched a line.
C14_ClearedByTheMainLoopOnly ==
    /\ [](interrupted => signals.recent)
    /\ [][(interrupted /\ ~interrupted')
             => (Len(cstack) = 1 /\ Top(cstack).main /\ Top(cstack).pc = "read")]_vars

\* A construct runs with the flag clear after the main loop has cleared the
\* flag a signal had set.
C14_Witness ==
    /\ proc = "running"
    /\ signals.count >= 1
    /\ ~signals.recent
    /\ ~interrupted
    /\ Len(cstack) > 1

\* The top activation's runLoop has a command's result in hand.
C15_HasResult == At("run", "post") /\ cstack' /= cstack

C15_Stops == Len(cstack') < Len(cstack) \/ proc' = "exited"

\* C15 (as stated): every Dispatch Loop, top-level or nested, stops after a
\* dispatched command exactly when the post-command hook returns true or the
\* Interrupt Flag is set.
C15_StopsOnHookOrFlag ==
    [][C15_HasResult => (C15_Stops <=> (PostCmd(Top(cstack).ret) \/ interrupted))]_vars

\* C15 (amended): a nested Dispatch Loop stops exactly when the hook returns
\* true or the Interrupt Flag is set; the top-level one exactly when the
\* hook returns true.
C15_MainLoopIgnoresFlag ==
    [][C15_HasResult
         => (C15_Stops <=> (PostCmd(Top(cstack).ret)
                               \/ (~Top(cstack).main /\ interrupted)))]_vars

\* The main loop is back at its prompt with the flag still set by a signal
\* that was handled during a loop.
C15_Witness ==
    /\ At("run", "read")
    /\ Top(cstack).main
    /\ Top(cstack).resumed = "loop"
    /\ interrupted
    /\ signals.handling = "none"

-----------------------------------------------------------------------------
(* Escaped references and conditionals (SpecText): the interpreter of Spec  *)
(* with lines that carry `$$x`, `echo` and the forms of `if`.               *)

TextSnippets ==
    { << <<"var", "x", "1">> >>,
      << <<"var", "w", "$$x">> >>,
      << <<"function", "f", "var", "w", "$$x">>, <<"f">> >>,
      << <<"f">> >>,
      << <<"repeat", "--count=2", "--wait=1", "var", "w", "$$x">> >>,
      << <<"foreach", "(", "a", ")", "var", "w", "$$x">> >>,
      << <<"if", "1", "var", "w", "$$x">> >>,
      << <<"if", "1", "{">>, <<"var", "w", "$$x">>, <<"}">> >>,
      << <<"if", "(", "eq#", "10", "9", ")", "echo", "yes", "else", "echo", "no">> >>,
      << <<"if", "(", "eq#", "9", "9", ")", "echo", "yes", "else", "echo", "no">> >>,
      << <<"if", "!(", "eq#", "10", "9", ")", "{">>, <<"echo", "yes">>,
         <<"}", "else", "{">>, <<"echo", "no">>, <<"}">> >>,
      << <<"if", "(", "eq#", "10", "9", ")", "{">>, <<"echo", "yes">>,
         <<"}", "else", "{">>, <<"echo", "no">>, <<"}">> >>,
      << <<"if", "0", "{">>, <<"echo", "yes">>, <<"}">> >>,
      << <<"if", "(", "eq#", "1", ")", "echo", "yes">> >>,
      << <<"if", "1">> >>,
      << <<"stop">> >> }
    \cup { << <<"repeat", "--count=" \o Itoa(n), "var", "w", "$index">> >> : n \in 1..MaxCount }

NextText == TypeFrom(TextSnippets) \/ Step \/ ExecEcho

SpecText == Init /\ [][NextText]_vars

\* C18: a line written `var w $$x` reaches command_variable as `var w $x`,
\* whether x is set or not and wherever the line is dispatched: directly, as
\* a line of a function or loop body, or as the one-line body of an `if`.
C18_HandlerGetsLiteral ==
    \A i \in 1..Len(cstack) :
        (/\ Len(cstack[i].cmd) >= 2
         /\ cstack[i].cmd[1] = "var"
         /\ cstack[i].cmd[2] = "w") => cstack[i].cmd = <<"var", "w", "$x">>

\* The predicate of a dispatched `if` line, `!` taken into account: a bare
\* word, or `( eq# a b )`.
C19_Holds(cmd) ==
    LET negated == cmd[2] \in {"!0", "!1", "!("}
        plain   == IF cmd[2] \in {"1", "!1"} THEN TRUE
                   ELSE IF cmd[2] \in {"0", "!0"} THEN FALSE
                   ELSE cmd[3] = "eq#" /\ cmd[4] = cmd[5]
    IN  plain /= negated

\* C19: the block an `if` runs is the true-block when its predicate holds and
\* the false-block when it does not: the lines the block's runLoop reads are
\* lines of that block, in order, and all of them when nothing stops it;
\* without an else block a predicate that does not hold runs no line.
C19_ChosenBlockRuns ==
    /\ \A i \in 2..Len(cstack) :
           (cstack[i].kind = "run" /\ cstack[i].caller = "if")
               => LET a      == cstack[i]
                      chosen == IF C19_Holds(cstack[i - 1].cmd) THEN a.b1 ELSE a.b2
                  IN  /\ Len(a.ran) <= Len(chosen)
                      /\ a.ran = SubSeq(chosen, 1, Len(a.ran))
    /\ (lastRet.caller = "if" /\ ~lastRet.shouldStop)
           => lastRet.ran = IF C19_Holds(lastRet.cmd) THEN lastRet.b1 ELSE lastRet.b2

\* `if ( eq# 10 9 ) { echo yes } else { echo no }` has run `echo no`, the
\* only line of its false-block, and nothing else.
C19_Witness ==
    /\ lastRet.caller = "if"
    /\ ~lastRet.shouldStop
    /\ lastRet.cmd = <<"if", "(", "eq#", "10", "9", ")", "{">>
    /\ lastRet.b1 = << <<"echo", "yes">> >>
    /\ lastRet.b2 = << <<"echo", "no">> >>
    /\ lastRet.ran = << <<"echo", "no">> >>

\* C20: `if ( eq# a b ) echo yes else echo no` runs `echo no` and not
\* `echo yes` when a and b differ, and `echo yes` alone when they are equal.
C20_ElseBodyRuns ==
    (/\ lastRet.caller = "if"
     /\ ~lastRet.shouldStop
     /\ Len(lastRet.cmd) = 11
     /\ lastRet.cmd[2] = "("
     /\ lastRet.cmd[9] = "else")
        => lastRet.ran = IF lastRet.cmd[4] = lastRet.cmd[5]
                         THEN <<SubSeq(lastRet.cmd, 7, 8)>>
                         ELSE <<SubSeq(lastRet.cmd, 10, 11)>>

-----------------------------------------------------------------------------
(* evalConditional on its own (SpecCond): a parenthesised condition made of *)
(* an operator and up to MaxArgs arguments.                                 *)

MaxArgs == 3

Operators ==
    {"z", "n", "t", "f", "eq", "ne", "gt", "gte", "lt", "lte",
     "eq#", "ne#", "gt#", "gte#", "lt#", "lte#",
     "startswith", "endswith", "contains"}

\* The number of arguments each operator is documented to take.
Arity(op) == IF op \in {"z", "n", "t", "f"} THEN 1 ELSE 2

InitCond ==
    /\ scopes = InitScopes
    /\ proc = "running"
    /\ got = NoCall
    /\ InterpIdle
    /\ GoIdle
    /\ xpc = "idle"
    /\ \E op \in Operators :
           \E n \in 0..MaxArgs :
               \E args \in [1..n -> {"", "0", "a", "ab"}] : xin = <<op>> \o args
    /\ xline = << >>

\* res, err := cf.evalConditional("(op args...)")
EvalCond ==
    /\ xpc = "idle"
    /\ xline' = evalConditional(TRUE, xin)
    /\ xpc' = "evalConditional"
    /\ UNCHANGED <<scopeVars, interpVars, goVars, xin>>

SpecCond == InitCond /\ [][EvalCond]_vars

\* C21: an operator evaluated with a number of arguments other than its
\* arity yields an evaluation error and no result.
C21_ArityMismatchIsAnError ==
    (xpc = "evalConditional" /\ Len(xin) - 1 /= Arity(xin[1])) => xline.err /= ""

-----------------------------------------------------------------------------
(* Errors a command reports (Spec and SpecText).                            *)

\* C22: a command that reports a usage error - a wrong number of arguments,
\* a predicate that cannot be evaluated - does not request stop.
C22_UsageErrorDoesNotStop ==
    reported.kind \in {"usage", "predicate"} => ~reported.stop

\* C23: a function definition, a conditional or a loop whose block the block
\* reader rejects returns a stop request.
C23_SyntaxErrorStops ==
    reported.kind = "syntax" => reported.stop

\* C24: the variable `error` is set once a command has reported an error.
C24_ErrorVariableSet ==
    reported.kind /= "none" => GetVar(reported.scopes, "error").ok

-----------------------------------------------------------------------------
(* repeat --count=N (SpecText).                                             *)

\* The body of the k-th iteration of the repeat at cstack[i] is under way.
C25_InIteration(i) ==
    /\ cstack[i].kind = "loop"
    /\ ~cstack[i].foreach
    /\ cstack[i].l.step = 1
    /\ cstack[i].pc = "ret"

\* The repeat run by cstack[i] has returned to it, no body has asked for a
\* stop and the Interrupt Flag is not set.
C25_Completed(i) ==
    /\ cstack[i].kind = "run"
    /\ cstack[i].pc = "post"
    /\ cstack[i].from = "loop"
    /\ Len(cstack[i].cmd) > 0
    /\ cstack[i].cmd[1] = "repeat"
    /\ cstack[i].l.step = 1
    /\ ~interrupted
    /\ ~(lastRet.caller = "loop" /\ lastRet.stop)

\* C25: `repeat --count=N body` with N >= 1 that is neither stopped nor
\* interrupted runs its body exactly N times; while the k-th run is under
\* way `index` is k and `count` is N in the loop's frame, and a `$index` of
\* the body has been replaced by k when the body's line is dispatched.
C25_RepeatCountsToN ==
    \A i \in 1..Len(cstack) :
        /\ C25_InIteration(i)
               => LET L == cstack[i]
                  IN  /\ L.l.Index \in 1..L.l.end
                      /\ Len(L.starts) = L.l.Index
                      /\ L.depth <= Len(scopes)
                      /\ GetVar(SubSeq(scopes, L.depth, L.depth), "index")
                             = [v |-> Itoa(L.l.Index), ok |-> TRUE]
                      /\ GetVar(SubSeq(scopes, L.depth, L.depth), "count")
                             = [v |-> Itoa(L.l.end), ok |-> TRUE]
                      /\ (/\ i < Len(cstack)
                          /\ cstack[i + 1].caller = "loop"
                          /\ cstack[i + 1].pc = "exec")
                             => /\ Len(cstack[i + 1].cmd) = Len(cstack[i + 1].line)
                                /\ \A j \in 1..Len(cstack[i + 1].line) :
                                       cstack[i + 1].line[j] = "$index"
                                           => cstack[i + 1].cmd[j] = Itoa(L.l.Index)
        /\ C25_Completed(i)
               => /\ cstack[i].l.Index = cstack[i].l.end
                  /\ Len(cstack[i].starts) = cstack[i].l.end

\* `repeat --count=2 var w $index` has run its body twice and returned.
C25_Witness ==
    /\ Len(cstack) = 1
    /\ C25_Completed(1)
    /\ cstack[1].cmd = <<"repeat", "--count=2", "var", "w", "$index">>
    /\ Len(cstack[1].starts) = 2

-----------------------------------------------------------------------------
(* ReadBlock on its own (SpecBlock): a header, the else keyword asked for   *)
(* and the lines that the Line Source holds, up to MaxLines of them.        *)

MaxLines == 4

BlockLines ==
    { <<"a">>, <<"b", "{">>, <<"}">>, <<"}", "else", "{">>, <<"}", "{">>, <<"}", "x">>,
      <<"}", "else">>, <<"#", "{">>, << >> }

BlockHeaders == { <<"{">>, <<"b", "{">>, <<"a">> }

InitBlock ==
    /\ scopes = InitScopes
    /\ proc = "running"
    /\ got = NoCall
    /\ InterpIdle
    /\ GoIdle
    /\ xpc = "idle"
    /\ \E body \in BlockHeaders, next \in {"", "else"} :
           \E n \in 0..(IF body = <<"{">> THEN MaxLines ELSE 1) :
               \E lines \in [1..n -> BlockLines] :
                   xin = [body |-> body, next |-> next, lines |-> lines]
    /\ xline = << >>

\* block1, block2, err := ctx.ReadBlock(body, next, cont)
ReadBlockCall ==
    /\ xpc = "idle"
    /\ xline' = ReadBlock(xin.body, xin.next,
                          [sc |-> [kind |-> "lines", lines |-> xin.lines], pend |-> << >>])
    /\ xpc' = "ReadBlock"
    /\ UNCHANGED <<scopeVars, interpVars, goVars, xin>>

SpecBlock == InitBlock /\ [][ReadBlockCall]_vars

\* The brace depth after the first j lines of ls: 1, one more for each line
\* ending in `{` and one less for each line starting with `}`; blank and
\* comment lines count when all is TRUE.
C26_Depth(ls, j, all) ==
    1 + Cardinality({i \in 1..j : (all \/ ~IsBlankOrComment(ls[i])) /\ HasSuffix(ls[i], "{")})
      - Cardinality({i \in 1..j : (all \/ ~IsBlankOrComment(ls[i])) /\ HasPrefix(ls[i], "}")})

\* Line k of ls starts with `}` and brings the depth back to zero.
C26_Closes(ls, k, all) ==
    /\ HasPrefix(ls[k], "}")
    /\ C26_Depth(ls, k - 1, all) = 1

\* The first such line of ls, 0 when there is none.
C26_Closing(ls, all) ==
    IF \E k \in 1..Len(ls) : C26_Closes(ls, k, all)
    THEN CHOOSE k \in 1..Len(ls) :
             C26_Closes(ls, k, all) /\ \A j \in 1..(k - 1) : ~C26_Closes(ls, j, all)
    ELSE 0

\* What the claim has ReadBlock return for the header `{`, the keyword next
\* and the lines ls, when ls holds the block or the two blocks in full.
C26_Blocks(ls, next, all) ==
    LET k    == C26_Closing(ls, all)
        rest == SubSeq(ls, k + 1, Len(ls))
        k2   == C26_Closing(rest, all)
    IN  IF k = 0 THEN [full |-> FALSE]
        ELSE IF IsBlankOrComment(Tail(ls[k]))
        THEN [full |-> TRUE, block1 |-> SubSeq(ls, 1, k - 1), block2 |-> << >>]
        ELSE IF next /= "" /\ Tail(ls[k]) = <<next, "{">> /\ k2 /= 0
        THEN [full |-> TRUE, block1 |-> SubSeq(ls, 1, k - 1),
              block2 |-> SubSeq(rest, 1, k2 - 1)]
        ELSE [full |-> FALSE]

\* C26 as stated, every line ending in `{` or starting with `}` counted:
\* for the header `{`, ReadBlock returns blocks only when the lines hold
\* them in full, and then the blocks that the depth of the lines delimits.
C26_EveryLineCounts ==
    (xpc = "ReadBlock" /\ xin.body = <<"{">> /\ xin.next = "else")
        => LET w == C26_Blocks(xin.lines, xin.next, TRUE)
           IN  /\ w.full => (xline.err = "" /\ xline.block1 = w.block1
                                /\ xline.block2 = w.block2)
               /\ xline.err = "" => w.full

\* C26: for the header `{`, ReadBlock returns as first block the lines read
\* before the line starting with `}` that brings the depth back to zero -
\* the depth starts at 1, a line ending in `{` adds one, a line starting with
\* `}` takes one off, blank and comment lines change nothing - so that the
\* `}` and `} else {` lines of nested blocks stay in the block; with nothing
\* after the closing `}` there is no second block, and with the else keyword
\* and `{` after it a second block is read the same way.
C26_BlocksByDepth ==
    (xpc = "ReadBlock" /\ xin.body = <<"{">>)
        => LET w == C26_Blocks(xin.lines, xin.next, FALSE)
           IN  /\ w.full => (xline.err = "" /\ xline.block1 = w.block1
                                /\ xline.block2 = w.block2)
               /\ (xline.err = "" /\ xin.next /= "") => w.full

\* `{`, then `b {`, `} else {`, `}` and `}`: the three lines of the nested
\* conditional are the block.
C26_Witness ==
    /\ xpc = "ReadBlock"
    /\ xin.lines = << <<"b", "{">>, <<"}", "else", "{">>, <<"}">>, <<"}">> >>
    /\ xline.err = ""
    /\ xline.block1 = << <<"b", "{">>, <<"}", "else", "{">>, <<"}">> >>
    /\ xline.block2 = << >>

\* The lines do not hold the closing `}` of the first block, or hold the
\* start of a second block and not its closing `}`.
C27_Unterminated(ls, next) ==
    LET k == C26_Closing(ls, FALSE)
    IN  \/ k = 0
        \/ /\ next /= ""
           /\ Tail(ls[k]) = <<next, "{">>
           /\ C26_Closing(SubSeq(ls, k + 1, Len(ls)), FALSE) = 0

\* C27: ReadBlock returns an error and no block when the input ends before
\* the closing brace, when the header ends in `{` and is not `{` alone, when
\* text that is neither blank nor a comment follows the closing `}` and is
\* not the else keyword asked for - no keyword asked for included - and when
\* the else keyword is not followed by `{` alone.
C27_DeviationsAreErrors ==
    xpc = "ReadBlock"
        => LET ls    == xin.lines
               k     == C26_Closing(ls, FALSE)
               after == Tail(ls[k])
           IN  /\ xline.err /= "" => (xline.block1 = << >> /\ xline.block2 = << >>)
               /\ (HasSuffix(xin.body, "{") /\ xin.body /= <<"{">>) => xline.err /= ""
               /\ (xin.body = <<"{">> /\ C27_Unterminated(ls, xin.next)) => xline.err /= ""
               /\ (xin.body = <<"{">> /\ k /= 0 /\ ~IsBlankOrComment(after))
                      => /\ (xin.next = "" \/ ~HasPrefix(after, xin.next)) => xline.err /= ""
                         /\ (xin.next /= "" /\ HasPrefix(after, xin.next)
                             /\ Tail(after) /= <<"{">>) => xline.err /= ""

-----------------------------------------------------------------------------
(* ShiftArgs on its own (SpecShift): a frame pushed with up to MaxArgs      *)
(* arguments, or with none, over the global frame, and the shift asked for. *)

\* The for loop of ShiftArgs, `for i := 1; i < nargs; i++`, from i on: the
\* frame and the arguments kept so far.  (A map read of a key that is not
\* bound gives "".)
RECURSIVE ShiftLoop(_, _, _, _, _)
ShiftLoop(frame, args, i, n, nargs) ==
    IF ~(i < nargs) THEN [vars |-> frame, args |-> args]
    ELSE IF i + n > nargs
    THEN ShiftLoop([k \in DOMAIN frame \ {Itoa(i)} |-> frame[k]], args, i + 1, n, nargs)
    ELSE LET v == IF Itoa(i + n) \in DOMAIN frame THEN frame[Itoa(i + n)] ELSE ""
         IN  ShiftLoop(Bind(frame, Itoa(i), v), Append(args, v), i + 1, n, nargs)

\* ShiftArgs(n) on the local frame; strconv.Atoi gives 0 for what is not a
\* number.
ShiftArgs(s, n) ==
    LET frame == s[Len(s)]
        nargs == IF "#" \in DOMAIN frame /\ \E c \in 0..MaxNum : Itoa(c) = frame["#"]
                 THEN CHOOSE c \in 0..MaxNum : Itoa(c) = frame["#"]
                 ELSE 0
        done  == ShiftLoop(frame, << >>, 1, n, nargs)
    IN  IF "#" \notin DOMAIN frame \/ n > nargs THEN s
        ELSE [s EXCEPT ![Len(s)] = Bind(Bind(done.vars, "*", Join(done.args, " ")),
                                        "#", Itoa(Len(done.args)))]

InitShift ==
    /\ \E vs \in ScopeInitVars, n \in 0..MaxArgs :
           \E a \in [1..n -> {"a", "b", "c"}] :
               \E args \in {NilArgs, Args(<<"f">> \o a)} :
                   scopes = PushScope(InitScopes, vs, args)
    /\ proc = "running"
    /\ got = NoCall
    /\ InterpIdle
    /\ GoIdle
    /\ xpc = "idle"
    /\ \E n \in 0..(MaxArgs + 1) : xin = [n |-> n, before |-> scopes]
    /\ xline = << >>

\* cf.ctx.ShiftArgs(start)
ShiftArgsCall ==
    /\ xpc = "idle"
    /\ scopes' = ShiftArgs(scopes, xin.n)
    /\ xpc' = "ShiftArgs"
    /\ UNCHANGED <<proc, got, interpVars, goVars, xin, xline>>

SpecShift == InitShift /\ [][ShiftArgsCall]_vars

\* C28: after shiftArgs(n) with 0 <= n <= $#, where the arguments were a1 to
\* aN: $i is a(i+n) for i up to N - n, $i is unbound for the i above, $# is
\* N - n, $* is a(n+1) to aN joined by single spaces, and $0, the other
\* variables of the frame and the other frames are as they were.
C28_ShiftRenumbers ==
    (/\ xpc = "ShiftArgs"
     /\ "#" \in DOMAIN xin.before[Len(xin.before)]
     /\ xin.before[Len(xin.before)]["#"] \in {Itoa(c) : c \in xin.n..MaxArgs})
        => LET B == xin.before[Len(xin.before)]
               T == scopes[Len(scopes)]
               N == CHOOSE c \in 0..MaxArgs : Itoa(c) = B["#"]
               n == xin.n
           IN  /\ \A i \in 1..(N - n) : Itoa(i) \in DOMAIN T /\ T[Itoa(i)] = B[Itoa(i + n)]
               /\ \A i \in (N - n + 1)..N : Itoa(i) \notin DOMAIN T
               /\ T["#"] = Itoa(N - n)
               /\ T["*"] = Join([i \in 1..(N - n) |-> B[Itoa(i + n)]], " ")
               /\ \A k \in DOMAIN B \ ({Itoa(i) : i \in 1..N} \cup {"#", "*"}) :
                      k \in DOMAIN T /\ T[k] = B[k]
               /\ DOMAIN T \subseteq DOMAIN B
               /\ Len(scopes) = Len(xin.before)
               /\ \A j \in 1..(Len(scopes) - 1) : scopes[j] = xin.before[j]

-----------------------------------------------------------------------------
(* SetVar, UnsetVar and GetVar through the scope API (SpecScope).           *)

\* The frame that the claim has a call with the target scope address in a
\* stack of depth n: the global one, the one under the top one when there is
\* one, the top one.
C29_Addressed(scope, n) ==
    IF scope = "global" THEN 1
    ELSE IF scope = "parent" /\ n >= 2 THEN n - 1
    ELSE n

\* C29: a call of set or unset with a given target changes one frame and
\* one name of it: frame 0 for global, the frame under the top one for parent
\* when there are two frames or more and the top one otherwise, the top one
\* for local.  After set the name is bound to the value there, after unset
\* it is not bound there; every other name of that frame and every other
\* frame is as it was.
C29_Step ==
    (got'.op \in {"SetVar", "UnsetVar"} /\ Len(scopes) >= 1)
        => LET f == C29_Addressed(got'.scope, Len(scopes))
           IN  /\ Len(scopes') = Len(scopes)
               /\ \A i \in 1..Len(scopes) : i /= f => scopes'[i] = scopes[i]
               /\ \A n \in (DOMAIN scopes[f] \cup DOMAIN scopes'[f]) \ {got'.k} :
                      /\ n \in DOMAIN scopes[f]
                      /\ n \in DOMAIN scopes'[f]
                      /\ scopes'[f][n] = scopes[f][n]
               /\ got'.op = "SetVar"
                      => (got'.k \in DOMAIN scopes'[f] /\ scopes'[f][got'.k] = got'.val)
               /\ got'.op = "UnsetVar" => got'.k \notin DOMAIN scopes'[f]

C30_Binding(k) == {i \in 1..Len(scopes) : k \in DOMAIN scopes[i]}

\* What get(name) has returned is the value that the innermost frame binding
\* the name gives it; found is false exactly when no frame binds the name.
C30_Innermost ==
    got.op = "GetVar"
        => /\ got.ok <=> C30_Binding(got.k) /= {}
           /\ got.ok => \E i \in C30_Binding(got.k) :
                            /\ \A j \in C30_Binding(got.k) : j <= i
                            /\ got.v = scopes[i][got.k]
           /\ ~got.ok => got.v = ""

\* A frame pushed over the stack hides the bindings it redefines and no
\* others, and the pop that matches it gives the bindings hidden back: what
\* get would return after PushScope is the pushed frame's value for the names
\* it binds and what it returned before for the others, and what it would
\* return after PopScope is what the frames left bind.
C30_Step ==
    /\ got'.op = "PushScope"
           => /\ Len(scopes') = Len(scopes) + 1
              /\ SubSeq(scopes', 1, Len(scopes)) = scopes
              /\ \A k \in ScopeNames :
                     GetVar(scopes', k) =
                         IF k \in DOMAIN scopes'[Len(scopes')]
                         THEN [v |-> scopes'[Len(scopes')][k], ok |-> TRUE]
                         ELSE GetVar(scopes, k)
    /\ (got'.op = "PopScope" /\ Len(scopes) >= 1)
           => scopes' = SubSeq(scopes, 1, Len(scopes) - 1)

\* C30: get(name) returns the value of the innermost frame that binds the
\* name and found = false exactly when no frame binds it; a binding of a
\* pushed frame shadows the outer ones, which are visible again after the
\* matching pop.
C30_GetSeesInnermost == []C30_Innermost /\ [][C30_Step]_vars

\* get(x) has returned the value of the pushed frame, not the global one.
C30_Witness ==
    /\ got.op = "GetVar"
    /\ got.k = "x"
    /\ Len(scopes) = 2
    /\ "x" \in DOMAIN scopes[1]
    /\ "x" \in DOMAIN scopes[2]
    /\ scopes[1]["x"] /= scopes[2]["x"]
    /\ got.v = scopes[2]["x"]

-----------------------------------------------------------------------------
(* SpecCall: scripts typed at the prompt in one go, with no signal.         *)

CallSnippets ==
    { << <<"var", "x", "5">>, <<"echo", "$x">>, <<"var", "-r", "x">>, <<"echo", "$x">> >>,
      << <<"var", "x", "5">>, <<"function", "f", "var", "-r", "x">>, <<"f">>,
         <<"echo", "$x">> >>,
      << <<"var", "x", "5">>, <<"repeat", "--count=1", "var", "-r", "x">>,
         <<"echo", "$x">> >>,
      << <<"function", "f", "{">>, <<"echo", "a">>, <<"function", "f", "echo", "b">>,
         <<"echo", "c">>, <<"}">>, <<"f">>, <<"f">> >>,
      << <<"function", "f", "{">>, <<"echo", "a">>, <<"function", "f", "--delete">>,
         <<"echo", "c">>, <<"}">>, <<"f">>, <<"f">> >>,
      << <<"function", "f", "echo", "$0", "$1">>, <<"function", "h", "f">>,
         <<"h", "a">>, <<"f">> >>,
      << <<"function", "f", "{">>, <<"repeat", "--count=2", "stop">>,
         <<"echo", "after">>, <<"}">>, <<"f">>, <<"echo", "end">> >>,
      << <<"function", "echo", "var", "-g", "x", "1">>, <<"echo", "a">>,
         <<"function", "echo", "--delete">>, <<"echo", "a">> >>,
      << <<"function", "f", "var", "-g", "x", "1">>,
         <<"function", "load", "var", "-g", "x", "2">>, <<"@f">>, <<"@g">>,
         <<"load", "f">> >> }

NextCall ==
    \/ TypeFrom(CallSnippets)
    \/ RunRead
    \/ ExecCall
    \/ ExecDefault
    \/ ExecEcho
    \/ ExecStop
    \/ ExecVar
    \/ ExecFunction
    \/ ExecRepeat
    \/ ExecLoad
    \/ RunPost
    \/ LoopNext
    \/ LoopRet

SpecCall == Init /\ [][NextCall]_vars

\* The top activation is about to dispatch the line cmd / has dispatched it.
C31_About(cmd) ==
    /\ cstack /= << >>
    /\ Top(cstack).kind = "run"
    /\ Top(cstack).pc = "exec"
    /\ Top(cstack).cmd = cmd

C31_Done(cmd) ==
    /\ cstack /= << >>
    /\ Top(cstack).kind = "run"
    /\ Top(cstack).pc = "read"
    /\ Top(cstack).resumed = "cmd"
    /\ Top(cstack).cmd = cmd

\* C31 as stated: once `var -r x` has run, wherever it has run, no frame
\* binds x for a reader.
C31_RemovedIsNotFound ==
    C31_Done(<<"var", "-r", "x">>) => ~GetVar(scopes, "x").ok

\* `var x 5` binds x to 5 in the top frame and `var -r x` takes x out of the
\* top frame; both leave the frames under it as they are.
C31_Step ==
    /\ (C31_About(<<"var", "x", "5">>) /\ cstack' /= cstack)
           => /\ scopes'[Len(scopes')]["x"] = "5"
              /\ SubSeq(scopes', 1, Len(scopes) - 1) = SubSeq(scopes, 1, Len(scopes) - 1)
    /\ (C31_About(<<"var", "-r", "x">>) /\ cstack' /= cstack)
           => /\ Len(scopes') = Len(scopes)
              /\ "x" \notin DOMAIN scopes'[Len(scopes')]
              /\ SubSeq(scopes', 1, Len(scopes) - 1) = SubSeq(scopes, 1, Len(scopes) - 1)

\* A line `echo $x` is dispatched with the value of the innermost frame that
\* binds x, and with nothing for `$x` when no frame binds x.
C31_Reads ==
    (cstack /= << >> /\ Top(cstack).pc = "exec" /\ Top(cstack).line = <<"echo", "$x">>)
        => LET B == {i \in 1..Len(scopes) : "x" \in DOMAIN scopes[i]}
           IN  Top(cstack).cmd =
                   IF B = {} THEN <<"echo">>
                   ELSE <<"echo", scopes[CHOOSE i \in B : \A j \in B : j <= i]["x"]>>

\* C31: after `var x 5` a reference `$x` expands to 5; a `var -r x` with no
\* scope option removes x from the top frame only: a read of x then reports
\* not-found when no frame under the top one binds x, and otherwise finds the
\* binding of the closest such frame, as when `var -r x` runs in a function or
\* loop body and x is bound outside it.
C31_RemovesFromTopFrame == []C31_Reads /\ [][C31_Step]_vars

\* `var -r x` has run in the body of f while the global frame binds x to 5:
\* x is still found.
C31_Witness ==
    /\ Len(cstack) = 2
    /\ C31_Done(<<"var", "-r", "x">>)
    /\ Top(cstack).name = "f"
    /\ GetVar(scopes, "x") = [v |-> "5", ok |-> TRUE]

\* The lines that the invocation cstack[i] has still to read: those of the
\* current Line Source when no block runs over it, and otherwise those of the
\* Line Source that the block over it has set aside.
C32_Rest(i) ==
    IF \A j \in (i + 1)..Len(cstack) : cstack[j].kind /= "run" THEN scanner.lines
    ELSE cstack[CHOOSE j \in (i + 1)..Len(cstack) :
                    /\ cstack[j].kind = "run"
                    /\ \A h \in (i + 1)..(j - 1) : cstack[h].kind /= "run"].prev.lines

\* An invocation reads the lines it was given, in order: the lines it has
\* read followed by those it has still to read are the body handed to it
\* (the bodies of this specification hold no brace block).
C32_ReadsItsLines ==
    \A i \in 1..Len(cstack) :
        (cstack[i].kind = "run" /\ cstack[i].caller = "call")
            => cstack[i].ran \o C32_Rest(i) = cstack[i].block

\* A call hands the stored list to the invocation and leaves it stored as it
\* is; the stored lists change only when a `function` line is dispatched.
C32_Step ==
    /\ (Ready /\ IsCallOf(Cur) /\ cstack' /= cstack)
           => /\ functions' = functions
              /\ Top(cstack').block = functions[CNameOf(Cur)]
              /\ Top(cstack').ran = << >>
    /\ functions' /= functions => (Ready /\ ~IsCallOf(Cur) /\ CNameOf(Cur) = "function")

\* C32: the body stored for a function is the list of lines read when it was
\* defined: a call leaves the stored list as it is and runs those lines in
\* order, and a definition or a deletion of the function made while an
\* invocation of it runs does not change the lines that invocation runs.
C32_BodyIsASnapshot == []C32_ReadsItsLines /\ [][C32_Step]_vars

\* An invocation of f has run its three lines, the second of which has
\* stored another body for f.
C32_Witness ==
    /\ Len(cstack) = 2
    /\ cstack[2].name = "f"
    /\ cstack[2].pc = "read"
    /\ cstack[2].ran = << <<"echo", "a">>, <<"function", "f", "echo", "b">>,
                          <<"echo", "c">> >>
    /\ cstack[2].block = cstack[2].ran
    /\ functions["f"] = << <<"echo", "b">> >>

-----------------------------------------------------------------------------
(* SpecArgs: the example program started with a command line.  main hands   *)
(* the line to OneCmd before CmdLoop has started the liner, and enters      *)
(* CmdLoop unless the line asked to stop.  xin is the line of the command   *)
(* line; pending holds what the user types once lines are read.             *)

ArgLines ==
    { <<"echo", "a">>, <<"var", "x", "5">>, <<"function", "f", "echo", "a">>,
      <<"function", "f", "{">>, <<"f">>, <<"stop">> }

ArgTyped == { << >>, << <<"echo", "a">>, <<"}">> >> }

InitArgs ==
    /\ scopes = InitScopes
    /\ proc = "running"
    /\ got = NoCall
    /\ scanner = NilScanner
    /\ pending \in ArgTyped
    /\ typed = 0
    /\ functions = << >>
    /\ interrupted = FALSE
    /\ inLoop = FALSE
    /\ xin \in ArgLines
    /\ cstack = <<OneCmd(xin)>>
    /\ signals = NoSignal
    /\ lastRet = NoRet
    /\ reported = NoReport
    /\ GoIdle
    /\ xpc = "main"
    /\ xline = << >>

\* commander.OneCmd(cmd) in main
MainOneCmd ==
    /\ proc = "running"
    /\ Top(cstack).kind = "once"
    /\ Top(cstack).pc \in {"exec", "post"}
    /\ \E m \in Steps(Cur) : Commit(m)

\* if commander.OneCmd(cmd) { return }; commander.CmdLoop()
MainCmdLoop ==
    /\ proc = "running"
    /\ Len(cstack) = 1
    /\ Top(cstack).kind = "once"
    /\ Top(cstack).pc = "done"
    /\ IF Top(cstack).ret
       THEN proc' = "exited" /\ UNCHANGED <<scanner, cstack>>
       ELSE /\ scanner' = LinerScanner
            /\ cstack' = <<[BaseActivation EXCEPT !.main = TRUE]>>
            /\ UNCHANGED proc
    /\ UNCHANGED <<scopes, got, pending, typed, functions, interrupted, inLoop,
                   signals, lastRet, reported, goVars, expVars>>

NextArgs ==
    \/ MainOneCmd
    \/ MainCmdLoop
    \/ NextCall

SpecArgs == InitArgs /\ [][NextArgs]_vars

\* What the line of the command line does when the interactive loop has read
\* it from the terminal instead, what the user types next being the same.
C33_FromTheLoop ==
    ExecSteps([Cur EXCEPT !.scanner = LinerScanner,
                          !.cstack = <<[BaseActivation EXCEPT
                                           !.main = TRUE, !.pc = "exec", !.line = xin,
                                           !.cmd = Expanded(scopes, xin),
                                           !.readFrom = "liner"]>>])

C33_Step ==
    (Len(cstack) = 1 /\ Top(cstack).kind = "once" /\ Top(cstack).pc = "exec"
     /\ cstack' /= cstack)
        => \E n \in C33_FromTheLoop :
               /\ scopes' = n.scopes
               /\ functions' = n.functions
               /\ reported' = n.reported
               /\ pending' = n.pending
               /\ (proc' = "panic") <=> (n.proc = "panic")
               /\ Top(cstack').pc = "done"
                      => (Top(cstack').ret <=> (n.proc = "exited"))

\* C33: a line dispatched through OneCmd before the interactive loop is
\* entered leaves the variables, the functions, the errors printed and the
\* process as the same line does when the interactive loop dispatches it,
\* also when its header opens a brace block.
C33_SameEffectBeforeTheLoop == [][C33_Step]_vars

-----------------------------------------------------------------------------
(* SpecSubstr: `expr substr start:end line`.  The line is a sequence of     *)
(* characters; xin holds the two parts of start:end as they are written     *)
(* (either may be empty) and the line, and xline the result.                *)

MaxStr == 3

\* case "substr" of command_expression, once start:end is split
substr(p0, p1, line) ==
    LET n  == Len(line)
        s0 == NumOf(p0)
        s1 == IF s0 < 0 THEN n + s0 ELSE s0
        start == IF s1 < 0 THEN 0 ELSE IF s1 > n THEN n ELSE s1
        e0 == IF p1 = "" THEN n ELSE NumOf(p1)
        e1 == IF e0 < 0 THEN start + n + e0 ELSE e0
        end == IF e1 < start THEN start ELSE IF e1 > n THEN n ELSE e1
    IN  SubSeq(line, start + 1, end)

SubstrParts == {""} \cup {Itoa(i) : i \in (0 - (MaxStr + 2))..(MaxStr + 2)}

InitSubstr ==
    /\ scopes = InitScopes
    /\ proc = "running"
    /\ got = NoCall
    /\ InterpIdle
    /\ GoIdle
    /\ xpc = "idle"
    /\ \E p0 \in SubstrParts, p1 \in SubstrParts, n \in 0..MaxStr :
           xin = [start |-> p0, end |-> p1, s |-> SubSeq(<<"a", "b", "c", "d", "e">>, 1, n)]
    /\ xline = << >>

\* expr substr start:end line
SubstrCall ==
    /\ xpc = "idle"
    /\ xline' = substr(xin.start, xin.end, xin.s)
    /\ xpc' = "substr"
    /\ UNCHANGED <<scopeVars, interpVars, goVars, xin>>

SpecSubstr == InitSubstr /\ [][SubstrCall]_vars

\* Python's s[a:b]: a bound left out is the start or the end of s, a
\* negative bound counts from the end of s, and both are clamped to s.
C34_Slice(s, a, b) ==
    LET n  == Len(s)
        Clamp(i) == IF i < 0 THEN (IF n + i < 0 THEN 0 ELSE n + i)
                    ELSE IF i > n THEN n ELSE i
        lo == IF a = "" THEN 0 ELSE Clamp(NumOf(a))
        hi == IF b = "" THEN n ELSE Clamp(NumOf(b))
    IN  SubSeq(s, lo + 1, hi)

\* C34: `expr substr start:end s` gives what Python's s[start:end] gives, for
\* every s and all integers start and end, the negative ones and those out of
\* range included.
C34_SubstrIsPythonSlice ==
    xpc = "substr" => xline = C34_Slice(xin.s, xin.start, xin.end)

-----------------------------------------------------------------------------
(* The order in which the lines of a Line Source are dispatched.            *)

C35_IsSuffix(r, b) == Len(r) <= Len(b) /\ r = SubSeq(b, Len(b) - Len(r) + 1, Len(b))

\* What every block that is running has still to read is the end of the
\* lines it was given: no line is read twice, skipped back to or added.
C35_InOrder ==
    proc = "running" =>
        \A i \in 1..Len(cstack) :
            (cstack[i].kind = "run" /\ ~cstack[i].main)
                => C35_IsSuffix(C32_Rest(i), cstack[i].block)

C35_Step ==
    \* a line that is read is the first one left in the Line Source
    /\ (/\ At("run", "read")
        /\ Len(cstack') = Len(cstack)
        /\ Top(cstack').pc \in {"exec", "hung"}
        /\ ~HasSuffix(Head(Available(InputOf(Cur))), "\\"))
           => /\ Top(cstack').line = Head(Available(InputOf(Cur)))
              /\ Available([sc |-> scanner', pend |-> pending'])
                     = Tail(Available(InputOf(Cur)))
    \* a block that returns puts back the Line Source it found, as it was
    /\ (/\ proc' = "running"
        /\ Len(cstack') = Len(cstack) - 1
        /\ Top(cstack).kind = "run")
           => /\ scanner' = Top(cstack).prev
              /\ pending' = pending

\* C35: the lines of a Line Source are dispatched in the order of the source,
\* and a block that returns, whether it ran to its end, was stopped or was
\* interrupted, puts back the Line Source it found, so that the loop that
\* ran it goes on with the line that follows the construct.
C35_SourceOrderKept == []C35_InOrder /\ [][C35_Step]_vars

\* A block that a stop request ended has returned to a block that was running
\* it, which then read the line that follows the call.
C35_Witness ==
    /\ Len(cstack) >= 2
    /\ Top(cstack).kind = "run"
    /\ Top(cstack).pc = "exec"
    /\ Top(cstack).resumed = "call"
    /\ lastRet.shouldStop
    /\ Len(Top(cstack).ran) >= 2

-----------------------------------------------------------------------------
(* Blank and comment lines in the blocks that ReadBlock returns (SpecBlock). *)

C36_NoBlank(ls) == SelectSeq(ls, LAMBDA l : ~IsBlankOrComment(l))

C36_Blanks(ls) == Cardinality({i \in 1..Len(ls) : IsBlankOrComment(ls[i])})

\* The blocks that ReadBlock returns hold no blank line and no comment line.
C36_NoBlankOrCommentInBlocks ==
    xpc = "ReadBlock"
        => /\ \A i \in 1..Len(xline.block1) : ~IsBlankOrComment(xline.block1[i])
           /\ \A i \in 1..Len(xline.block2) : ~IsBlankOrComment(xline.block2[i])

\* C36: the blank lines and the comment lines that ReadBlock reads do not
\* count for the brace depth and are collected as they are: the call ends as
\* it does on the same lines without them, the blocks it returns are those
\* of that call with the blank and comment lines in their places, and every
\* blank or comment line it has read is in a block.
C36_BlanksKeptNotCounted ==
    (xpc = "ReadBlock" /\ xin.body = <<"{">>)
        => LET r == ReadBlock(xin.body, xin.next,
                              [sc |-> [kind |-> "lines", lines |-> C36_NoBlank(xin.lines)],
                               pend |-> << >>])
               read == SubSeq(xin.lines, 1, Len(xin.lines) - Len(xline.in.sc.lines))
           IN  /\ r.err = xline.err
               /\ r.block1 = C36_NoBlank(xline.block1)
               /\ r.block2 = C36_NoBlank(xline.block2)
               /\ xline.err = ""
                      => C36_Blanks(xline.block1) + C36_Blanks(xline.block2)
                             = C36_Blanks(read)

\* `{`, then `b {`, `# {`, `}` and `}`: the comment is in the block and
\* opens nothing.
C36_Witness ==
    /\ xpc = "ReadBlock"
    /\ xin.lines = << <<"b", "{">>, <<"#", "{">>, <<"}">>, <<"}">> >>
    /\ xline.err = ""
    /\ xline.block1 = << <<"b", "{">>, <<"#", "{">>, <<"}">> >>

-----------------------------------------------------------------------------
(* The positional variables of a function called with no argument.          *)

\* C37: in the body of a function called with no argument, $0 is the name
\* of the function, $# is 0 and $1 and $* are empty, also when the call is
\* made in the body of a function that was called with arguments.
C37_PositionalsAreOwn ==
    (/\ proc = "running"
     /\ Len(cstack) >= 2
     /\ Top(cstack).kind = "run"
     /\ Top(cstack).caller = "call"
     /\ Top(cstack).callArgs = << >>)
        => /\ GetVar(scopes, "0") = [v |-> Top(cstack).name, ok |-> TRUE]
           /\ GetVar(scopes, "#") = [v |-> "0", ok |-> TRUE]
           /\ GetVar(scopes, "1").v = ""
           /\ GetVar(scopes, "*").v = ""

-----------------------------------------------------------------------------
(* The in-loop indicator while loops nest.                                  *)

C38_Looping == \E i \in 1..Len(cstack) : cstack[i].kind = "loop"

C38_Step ==
    (proc = "running" /\ C38_Looping /\ signals.handling = "INT") => proc' /= "killed"

\* C38: the in-loop indicator is true as long as a repeat or foreach loop is
\* running, also in an outer loop once a loop nested in it has ended, and
\* an interrupt that arrives while a loop is running does not end the
\* process.
C38_InLoopWhileAnyLoopRuns ==
    [](proc = "running" /\ C38_Looping => inLoop) /\ [][C38_Step]_vars

-----------------------------------------------------------------------------
(* A stop request raised in the body of a loop (SpecCall: no interrupt).    *)

C39_Step ==
    \* the body has returned stop: the loop ends and its command returns false
    /\ (At("loop", "ret") /\ Top(cstack).ret)
           => /\ Len(cstack') = Len(cstack) - 1
              /\ Top(cstack').pc = "post"
              /\ Top(cstack').from = "loop"
              /\ ~Top(cstack').ret
    \* the loop that dispatched the loop command goes on with its next line
    /\ (At("run", "post") /\ Top(cstack).from = "loop")
           => /\ Len(cstack') = Len(cstack)
              /\ Top(cstack').pc = "read"
              /\ scanner' = scanner

\* C39: a stop request raised by the body of a repeat or foreach loop ends
\* that loop and goes no further: the loop command returns stop = false, and
\* the function body or the script that holds the loop goes on with the line
\* after it.
C39_StopEndsTheLoopOnly ==
    [](At("run", "post") /\ Top(cstack).from = "loop" => ~Top(cstack).ret)
        /\ [][C39_Step]_vars

\* The loop in the body of f was ended by `stop` in its first pass, and f
\* has read the line after the loop.
C39_Witness ==
    /\ Len(cstack) = 2
    /\ Top(cstack).name = "f"
    /\ Top(cstack).pc = "exec"
    /\ Top(cstack).cmd = <<"echo", "after">>
    /\ Top(cstack).resumed = "loop"
    /\ lastRet.caller = "loop"
    /\ lastRet.ran = << <<"stop">> >>
    /\ lastRet.byStop

-----------------------------------------------------------------------------
(* Functions, registered commands and `@` lines (SpecCall).                 *)

\* The step has entered the body of a user function.
C40_RunsFunction ==
    /\ Len(cstack') = Len(cstack) + 1
    /\ Top(cstack').caller = "call"

C40_Step ==
    Ready =>
        LET line == Top(cstack).cmd
        IN  IF IsAtLine(line)
            THEN \* dispatched as `load`: the script is run or the error printed
                 /\ ~C40_RunsFunction
                 /\ IF AtAsLoad(line)[2] \in DOMAIN Files
                    THEN /\ Len(cstack') = Len(cstack) + 1
                         /\ Top(cstack').caller = "load"
                         /\ Top(cstack').block = Files[AtAsLoad(line)[2]]
                    ELSE reported'.kind = "load"
            ELSE IF Len(line) > 0 /\ line[1] \in DOMAIN functions
            THEN \* a function, whether or not a command has its name
                 /\ C40_RunsFunction
                 /\ Top(cstack').name = line[1]
                 /\ Top(cstack').block = functions[line[1]]
                 /\ functions' = functions
            ELSE /\ ~C40_RunsFunction
                 /\ (Len(line) > 0 /\ line[1] = "echo")
                        => Len(cstack') = Len(cstack) /\ Top(cstack').resumed = "cmd"

\* C40: the first word of a line is looked up among the user functions
\* before the registered commands: a name that is both runs the body of the
\* function and not the handler, the handler is called again once the
\* function is deleted, and a line that starts with `@` is dispatched as
\* `load` and never runs a function.
C40_FunctionsBeforeCommands == [][C40_Step]_vars

\* The function echo has run (x is 1), it was deleted, and `echo a` has
\* then been handled by the command.
C40_Witness ==
    /\ Len(cstack) = 1
    /\ Top(cstack).pc = "read"
    /\ Top(cstack).cmd = <<"echo", "a">>
    /\ Top(cstack).resumed = "cmd"
    /\ "echo" \notin DOMAIN functions
    /\ GetVar(scopes, "x") = [v |-> "1", ok |-> TRUE]

====
